---- MODULE Spec2Model ----
(***************************************************************************)
(* SpaceBridge: the per-stack commands of cmd/spacebridge (state migrate,  *)
(* state enable-access, stacks enable), the space filter of generate,      *)
(* DiscoverAll, the resolution of the -s token and the validation of the   *)
(* credentials.                                                            *)
(*                                                                         *)
(* A run of a command is a state machine: the discovered stacks are the    *)
(* input, every remote call is one step whose outcome (success or error)   *)
(* is chosen by the remote side, and `calls' records the calls issued.     *)
(***************************************************************************)
EXTENDS Integers, Sequences, FiniteSets, TLC

\* Bounds of the model.
MaxSrc == 2        \* source stacks discovered
MaxDst == 2        \* destination stacks discovered
MaxSpaces == 3     \* spaces of a manifest besides root

Names == {"a", "b"}

TerraformVendors ==
  {"StackConfigVendorTerraform", "StackConfigVendorOpenTofu", "StackConfigVendorTerragrunt"}

\* Vendor types the runs are fed with: one Terraform-family, one not.
RunVendors == {"StackConfigVendorOpenTofu", "StackConfigVendorAnsible"}

Commands == {"state migrate", "state enable-access", "stacks enable"}

VARIABLES
  cmd,            \* the command being run
  dryRun,         \* --dry-run
  sourceStacks,   \* stacks discovered in the source account
  destStacks,     \* stacks discovered in the destination account
  pc,             \* position of the command
  candidates,     \* runStateMigrate: []migrationCandidate
  skipped,        \* runStateMigrate: skipped
  notInDest,      \* runStateMigrate: notInDest
  noAccess,       \* runStateMigrate: noAccess
  blocked,        \* runStateEnableAccess: blocked
  disabled,       \* runStacksEnable: disabled
  idx,            \* index of the range loop over candidates / blocked / disabled
  successCount,
  failCount,
  result,         \* "running", "nil" (return nil) or "error" (return fmt.Errorf)
  calls,          \* remote calls issued so far, in order
  locked,         \* destination account: stacks holding a lock taken by this run
  imported,       \* destination account: stacks whose state import succeeded
  accessEnabled,  \* source account: stacks updated by EnableExternalStateAccess
  enabledStacks,  \* destination account: stacks updated by EnableStack
  manifest,           \* filterManifestBySpace: the manifest given
  spaceID,            \* filterManifestBySpace: the target space id
  fpc,                \* position inside filterManifestBySpace
  includedSpaces,     \* map[string]bool, as the set of its keys
  ancestorSpaces,     \* map[string]bool, as the set of its keys
  currentSpaceID,     \* the space an upward walk stands on
  filteredStacks,
  requiredContextIDs,
  requiredPolicyIDs,
  pending,            \* keys the running range loop over a required-ids map has left
  filtered,           \* the manifest returned
  pass,               \* how many times the filter has been applied to its own result
  cfg,                \* config.Config: the two credential triples read from the environment
  clients,            \* accounts a client.Client has been created for
  spaceFilter,        \* the -s/--space token, a sequence of characters
  spaces,             \* the spaces DiscoverSpaces returns to resolveSpaceFilter
  accountData,        \* what the account answers to the queries of DiscoverAll
  returned,           \* what DiscoverAll returned: (manifest, err)
  status,             \* resp.StatusCode of the pre-signed URL request (0: no response)
  transport,          \* the spaceliftTransport of the Client: token and tokenExp
  now                 \* time.Now(), in minutes

cmdVars == <<cmd, dryRun, sourceStacks, destStacks, pc, candidates, skipped, notInDest,
             noAccess, blocked, disabled, idx, successCount, failCount, result, calls,
             locked, imported, accessEnabled, enabledStacks>>

filterVars == <<manifest, spaceID, fpc, includedSpaces, ancestorSpaces, currentSpaceID,
                filteredStacks, requiredContextIDs, requiredPolicyIDs, pending, filtered,
                pass>>

setupVars == <<cfg, clients, spaceFilter, spaces, accountData, returned, status,
               transport, now>>

vars == <<cmdVars, filterVars, setupVars>>

----------------------------------------------------------------------------
\* models.Stack, the fields the commands read.

SeqsUpTo(S, n) == UNION {[1..k -> S] : k \in 0..n}

Shape(names, manages, vendors, access, isDisabled) ==
  [Name : names, ManagesStateFile : manages, VendorType : vendors,
   ExternalStateAccessEnabled : access, IsDisabled : isDisabled]

\* A discovery result: the i-th stack of an account gets the id <<account, i>>.
MkStacks(account, shapes) ==
  [i \in 1..Len(shapes) |-> [ID |-> <<account, i>>] @@ shapes[i]]

IsTerraform(s) == s.VendorType \in TerraformVendors

friendlyVendorType(vendorType) ==
  CASE vendorType = "StackConfigVendorTofu" -> "Tofu"
    [] vendorType = "StackConfigVendorTerragrunt" -> "Terragrunt"
    [] vendorType = "StackConfigVendorAnsible" -> "Ansible"
    [] vendorType = "StackConfigVendorKubernetes" -> "Kubernetes"
    [] vendorType = "StackConfigVendorCloudFormation" -> "CloudFormation"
    [] vendorType = "StackConfigVendorPulumi" -> "Pulumi"
    [] OTHER -> vendorType

----------------------------------------------------------------------------
\* runStateMigrate: destStackMap and the classification loop.

RECURSIVE BuildDestStackMap_FirstWins(_, _)
\* Mutant: the first destination stack of a name keeps the map entry.
BuildDestStackMap_FirstWins(stacks, n) ==
  IF n = 0 THEN <<>>
  ELSE LET m == BuildDestStackMap_FirstWins(stacks, n - 1)
           s == stacks[n]
       IN  [k \in (DOMAIN m) \cup {s.Name} |-> IF k \in DOMAIN m THEN m[k] ELSE s]

RECURSIVE BuildDestStackMap(_, _)
\* for _, stack := range destStacks { destStackMap[stack.Name] = stack }
BuildDestStackMap(stacks, n) ==
  IF n = 0 THEN <<>>
  ELSE LET m == BuildDestStackMap(stacks, n - 1)
           s == stacks[n]
       IN  [k \in (DOMAIN m) \cup {s.Name} |-> IF k = s.Name THEN s ELSE m[k]]

destStackMap == BuildDestStackMap(destStacks, Len(destStacks))

\* Mutant: the external-access test comes first.
Disposition_AccessFirst(stack, dmap) ==
  IF ~stack.ExternalStateAccessEnabled THEN "noAccess"
  ELSE IF ~stack.ManagesStateFile THEN "skipped-self-managed"
  ELSE IF ~IsTerraform(stack) THEN "skipped-vendor"
  ELSE IF stack.Name \notin DOMAIN dmap THEN "notInDest"
  ELSE "candidate"

Disposition(stack, dmap) ==
  IF ~stack.ManagesStateFile THEN "skipped-self-managed"
  ELSE IF ~IsTerraform(stack) THEN "skipped-vendor"
  ELSE IF ~stack.ExternalStateAccessEnabled THEN "noAccess"
  ELSE IF stack.Name \notin DOMAIN dmap THEN "notInDest"
  ELSE "candidate"

RECURSIVE Classify(_, _, _)
\* The lists after the first n source stacks have been classified.
Classify(stacks, dmap, n) ==
  IF n = 0
  THEN [candidates |-> <<>>, skipped |-> <<>>, notInDest |-> <<>>, noAccess |-> <<>>]
  ELSE LET r == Classify(stacks, dmap, n - 1)
           stack == stacks[n]
           d == Disposition(stack, dmap)
       IN  CASE d = "skipped-self-managed" ->
                  [r EXCEPT !.skipped = Append(@, <<stack.Name, "self-managed state">>)]
             [] d = "skipped-vendor" ->
                  [r EXCEPT !.skipped =
                     Append(@, <<stack.Name, friendlyVendorType(stack.VendorType)>>)]
             [] d = "noAccess" -> [r EXCEPT !.noAccess = Append(@, stack.Name)]
             [] d = "notInDest" -> [r EXCEPT !.notInDest = Append(@, stack.Name)]
             [] OTHER ->
                  [r EXCEPT !.candidates =
                     Append(@, [Source |-> stack, Dest |-> dmap[stack.Name]])]

----------------------------------------------------------------------------
\* discovery.Manifest and models.Space, the fields filterManifestBySpace reads.

\* A nil *string (Space.ParentSpace of a space without parent).
Nil == "<nil>"

EmptyManifest ==
  [Spaces |-> <<>>, Stacks |-> <<>>, Contexts |-> <<>>, Policies |-> <<>>,
   AWSIntegrations |-> <<>>, AzureIntegrations |-> <<>>]

\* The filter is not running.
FilterIdle ==
  /\ manifest = EmptyManifest
  /\ spaceID = ""
  /\ fpc = "idle"
  /\ includedSpaces = {}
  /\ ancestorSpaces = {}
  /\ currentSpaceID = ""
  /\ filteredStacks = <<>>
  /\ requiredContextIDs = {}
  /\ requiredPolicyIDs = {}
  /\ pending = {}
  /\ filtered = EmptyManifest
  /\ pass = 0

\* A *Manifest that is nil.
NilManifest == [IsNil |-> TRUE]

\* DiscoverAll has not returned. An error is the sequence of the parts of its
\* message; <<>> is the nil error.
NotReturned == [manifest |-> NilManifest, err |-> <<"running">>]

\* A spaceliftTransport as client.New builds it: no token yet.
NewTransport == [token |-> "", tokenExp |-> 0]

\* No raw transfer is under way and the transport is fresh.
WireIdle ==
  /\ status = 0
  /\ transport = NewTransport
  /\ now = 0

\* The credentials are in place and the clients exist; no space token, no
\* DiscoverAll.
SetupIdle ==
  /\ WireIdle
  /\ cfg = [Source |-> [URL |-> "set", KeyID |-> "set", SecretKey |-> "set"],
            Destination |-> [URL |-> "set", KeyID |-> "set", SecretKey |-> "set"]]
  /\ clients = {"source", "destination"}
  /\ spaceFilter = <<>>
  /\ spaces = <<>>
  /\ accountData = EmptyManifest
  /\ returned = NotReturned

----------------------------------------------------------------------------
Init ==
  /\ cmd \in Commands
  /\ dryRun \in (IF cmd = "state enable-access" THEN {FALSE} ELSE BOOLEAN)
  /\ sourceStacks \in
       IF cmd = "stacks enable" THEN {<<>>}
       ELSE {MkStacks("source", sh) :
               sh \in SeqsUpTo(Shape(Names, BOOLEAN, RunVendors, BOOLEAN, {FALSE}), MaxSrc)}
  /\ destStacks \in
       CASE cmd = "state enable-access" -> {<<>>}
         [] cmd = "state migrate" ->
              {MkStacks("destination", sh) :
                 sh \in SeqsUpTo(Shape(Names, {TRUE}, {"StackConfigVendorOpenTofu"},
                                       {FALSE}, {TRUE}), MaxDst)}
         [] OTHER ->
              {MkStacks("destination", sh) :
                 sh \in SeqsUpTo(Shape(Names, {TRUE}, {"StackConfigVendorOpenTofu"},
                                       {FALSE}, BOOLEAN), MaxDst)}
  /\ pc = "start"
  /\ candidates = <<>>
  /\ skipped = <<>>
  /\ notInDest = <<>>
  /\ noAccess = <<>>
  /\ blocked = <<>>
  /\ disabled = <<>>
  /\ idx = 0
  /\ successCount = 0
  /\ failCount = 0
  /\ result = "running"
  /\ calls = <<>>
  /\ locked = {}
  /\ imported = {}
  /\ accessEnabled = {}
  /\ enabledStacks = {}
  /\ FilterIdle
  /\ SetupIdle

----------------------------------------------------------------------------
remote == <<locked, imported, accessEnabled, enabledStacks>>
inputs == <<cmd, dryRun, sourceStacks, destStacks>>
lists == <<candidates, skipped, notInDest, noAccess, blocked, disabled>>

\* The record of one remote call issued by the loop iteration idx.
Call(op, account, stack, ok) ==
  [op |-> op, account |-> account, stack |-> stack, cand |-> idx, ok |-> ok]

\* Mutant: the loop ends one element early.
LoopNext_OneShort(first, n) ==
  /\ idx' = idx + 1
  /\ pc' = IF idx + 1 >= n THEN "summary" ELSE first

\* The range loop moves on: to the next element, or past the loop.
LoopNext(first, n) ==
  /\ idx' = idx + 1
  /\ pc' = IF idx + 1 > n THEN "summary" ELSE first

\* Mutant: failCount++; break
FailAndBreak ==
  /\ failCount' = failCount + 1
  /\ idx' = idx
  /\ pc' = "summary"

\* failCount++; continue
FailAndContinue ==
  /\ failCount' = failCount + 1
  /\ LoopNext("GetStateDownloadURL", Len(candidates))


----------------------------------------------------------------------------
\* state migrate

\* Mutant: --dry-run is not looked at.
MigratePlan_DryRunIgnored ==
  /\ cmd = "state migrate"
  /\ pc = "start"
  /\ LET r == Classify(sourceStacks, destStackMap, Len(sourceStacks))
     IN  /\ candidates' = r.candidates
         /\ skipped' = r.skipped
         /\ notInDest' = r.notInDest
         /\ noAccess' = r.noAccess
         /\ IF Len(r.candidates) = 0
            THEN /\ pc' = "done"
                 /\ result' = "nil"
                 /\ idx' = idx
            ELSE /\ pc' = "GetStateDownloadURL"
                 /\ result' = result
                 /\ idx' = 1
  /\ UNCHANGED <<filterVars, setupVars, inputs, blocked, disabled, successCount, failCount, calls, remote>>

\* Classification, the printed plan and the two early returns.
MigratePlan ==
  /\ cmd = "state migrate"
  /\ pc = "start"
  /\ LET r == Classify(sourceStacks, destStackMap, Len(sourceStacks))
     IN  /\ candidates' = r.candidates
         /\ skipped' = r.skipped
         /\ notInDest' = r.notInDest
         /\ noAccess' = r.noAccess
         /\ IF Len(r.candidates) = 0 \/ dryRun
            THEN /\ pc' = "done"
                 /\ result' = "nil"
                 /\ idx' = idx
            ELSE /\ pc' = "GetStateDownloadURL"
                 /\ result' = result
                 /\ idx' = 1
  /\ UNCHANGED <<filterVars, setupVars, inputs, blocked, disabled, successCount, failCount, calls, remote>>

GetStateDownloadURL ==
  /\ pc = "GetStateDownloadURL"
  /\ \E ok \in BOOLEAN :
       /\ calls' = Append(calls, Call("GetStateDownloadURL", "source",
                                      candidates[idx].Source.ID, ok))
       /\ IF ok
          THEN pc' = "GetStateUploadURL" /\ UNCHANGED <<idx, failCount>>
          ELSE FailAndContinue
  /\ UNCHANGED <<filterVars, setupVars, inputs, lists, successCount, result, remote>>

GetStateUploadURL ==
  /\ pc = "GetStateUploadURL"
  /\ \E ok \in BOOLEAN :
       /\ calls' = Append(calls, Call("GetStateUploadURL", "destination",
                                      candidates[idx].Dest.ID, ok))
       /\ IF ok
          THEN pc' = "StreamStateFromURL" /\ UNCHANGED <<idx, failCount>>
          ELSE FailAndContinue
  /\ UNCHANGED <<filterVars, setupVars, inputs, lists, successCount, result, remote>>

StreamStateFromURL ==
  /\ pc = "StreamStateFromURL"
  /\ \E ok \in BOOLEAN :
       /\ calls' = Append(calls, Call("StreamStateFromURL", "source",
                                      candidates[idx].Source.ID, ok))
       /\ IF ok
          THEN pc' = "UploadStateToURL" /\ UNCHANGED <<idx, failCount>>
          ELSE FailAndContinue
  /\ UNCHANGED <<filterVars, setupVars, inputs, lists, successCount, result, remote>>

\* Mutant: a failed upload is printed and the transfer goes on.
UploadStateToURL_ErrorIgnored ==
  /\ pc = "UploadStateToURL"
  /\ \E ok \in BOOLEAN :
       calls' = Append(calls, Call("UploadStateToURL", "destination",
                                   candidates[idx].Dest.ID, ok))
  /\ pc' = "LockStack"
  /\ UNCHANGED <<filterVars, setupVars, inputs, lists, idx, failCount, successCount, result, remote>>

\* Mutant: the import follows the upload at once, no lock is taken.
UploadStateToURL_NoLock ==
  /\ pc = "UploadStateToURL"
  /\ \E ok \in BOOLEAN :
       /\ calls' = Append(calls, Call("UploadStateToURL", "destination",
                                      candidates[idx].Dest.ID, ok))
       /\ IF ok
          THEN pc' = "ImportManagedState" /\ UNCHANGED <<idx, failCount>>
          ELSE FailAndContinue
  /\ UNCHANGED <<filterVars, setupVars, inputs, lists, successCount, result, remote>>

UploadStateToURL ==
  /\ pc = "UploadStateToURL"
  /\ \E ok \in BOOLEAN :
       /\ calls' = Append(calls, Call("UploadStateToURL", "destination",
                                      candidates[idx].Dest.ID, ok))
       /\ IF ok
          THEN pc' = "LockStack" /\ UNCHANGED <<idx, failCount>>
          ELSE FailAndContinue
  /\ UNCHANGED <<filterVars, setupVars, inputs, lists, successCount, result, remote>>

\* Mutant: a failed lock is printed and the import goes on.
LockStack_ErrorIgnored ==
  /\ pc = "LockStack"
  /\ \E ok \in BOOLEAN :
       /\ calls' = Append(calls, Call("LockStack", "destination",
                                      candidates[idx].Dest.ID, ok))
       /\ locked' = IF ok THEN locked \cup {candidates[idx].Dest.ID} ELSE locked
  /\ pc' = "ImportManagedState"
  /\ UNCHANGED <<filterVars, setupVars, inputs, lists, idx, failCount, successCount, result, imported,
                 accessEnabled, enabledStacks>>

LockStack ==
  /\ pc = "LockStack"
  /\ \E ok \in BOOLEAN :
       /\ calls' = Append(calls, Call("LockStack", "destination",
                                      candidates[idx].Dest.ID, ok))
       /\ IF ok
          THEN /\ locked' = locked \cup {candidates[idx].Dest.ID}
               /\ pc' = "ImportManagedState"
               /\ UNCHANGED <<idx, failCount>>
          ELSE /\ locked' = locked
               /\ FailAndContinue
  /\ UNCHANGED <<filterVars, setupVars, inputs, lists, successCount, result, imported, accessEnabled,
                 enabledStacks>>

\* Mutant: a failed import counts the failure and continues without unlocking.
ImportManagedState_NoUnlockOnError ==
  /\ pc = "ImportManagedState"
  /\ \E ok \in BOOLEAN :
       /\ calls' = Append(calls, Call("ImportManagedState", "destination",
                                      candidates[idx].Dest.ID, ok))
       /\ IF ok
          THEN /\ imported' = imported \cup {candidates[idx].Dest.ID}
               /\ pc' = "UnlockStack"
               /\ UNCHANGED <<idx, failCount>>
          ELSE /\ imported' = imported
               /\ FailAndContinue
  /\ UNCHANGED <<filterVars, setupVars, inputs, lists, successCount, result, locked, accessEnabled,
                 enabledStacks>>

ImportManagedState ==
  /\ pc = "ImportManagedState"
  /\ \E ok \in BOOLEAN :
       /\ calls' = Append(calls, Call("ImportManagedState", "destination",
                                      candidates[idx].Dest.ID, ok))
       /\ IF ok
          THEN /\ imported' = imported \cup {candidates[idx].Dest.ID}
               /\ pc' = "UnlockStack"
          ELSE /\ imported' = imported
               /\ pc' = "UnlockStackAfterFailedImport"
  /\ UNCHANGED <<filterVars, setupVars, inputs, lists, idx, successCount, failCount, result, locked,
                 accessEnabled, enabledStacks>>

\* The unlock call itself: a successful call releases the lock, a failed one
\* leaves the destination stack as it was.
Unlock(ok) ==
  /\ calls' = Append(calls, Call("UnlockStack", "destination",
                                 candidates[idx].Dest.ID, ok))
  /\ locked' = IF ok THEN locked \ {candidates[idx].Dest.ID} ELSE locked

\* Mutant: no unlock after a failed import.
UnlockStackAfterFailedImport_Skipped ==
  /\ pc = "UnlockStackAfterFailedImport"
  /\ FailAndContinue
  /\ UNCHANGED <<filterVars, setupVars, inputs, lists, successCount, result, calls, remote>>

\* Import failed: "Try to unlock even if import failed", then failCount++; continue.
UnlockStackAfterFailedImport ==
  /\ pc = "UnlockStackAfterFailedImport"
  /\ \E ok \in BOOLEAN : Unlock(ok)
  /\ FailAndContinue
  /\ UNCHANGED <<filterVars, setupVars, inputs, lists, successCount, result, imported, accessEnabled,
                 enabledStacks>>

\* Mutant: a failed unlock after a successful import counts the candidate as failed.
UnlockStack_FailureCounts ==
  /\ pc = "UnlockStack"
  /\ \E ok \in BOOLEAN :
       /\ Unlock(ok)
       /\ IF ok
          THEN successCount' = successCount + 1 /\ failCount' = failCount
          ELSE successCount' = successCount /\ failCount' = failCount + 1
  /\ LoopNext("GetStateDownloadURL", Len(candidates))
  /\ UNCHANGED <<filterVars, setupVars, inputs, lists, result, imported, accessEnabled,
                 enabledStacks>>

\* Import succeeded: unlock, whose error is printed only, then successCount++.
UnlockStack ==
  /\ pc = "UnlockStack"
  /\ \E ok \in BOOLEAN : Unlock(ok)
  /\ successCount' = successCount + 1
  /\ LoopNext("GetStateDownloadURL", Len(candidates))
  /\ UNCHANGED <<filterVars, setupVars, inputs, lists, failCount, result, imported, accessEnabled,
                 enabledStacks>>

\* Mutant: the summary never returns an error.
MigrateSummary_AlwaysNil ==
  /\ cmd = "state migrate"
  /\ pc = "summary"
  /\ result' = "nil"
  /\ pc' = "done"
  /\ UNCHANGED <<filterVars, setupVars, inputs, lists, idx, successCount, failCount, calls, remote>>

MigrateSummary ==
  /\ cmd = "state migrate"
  /\ pc = "summary"
  /\ result' = IF failCount > 0 THEN "error" ELSE "nil"
  /\ pc' = "done"
  /\ UNCHANGED <<filterVars, setupVars, inputs, lists, idx, successCount, failCount, calls, remote>>

----------------------------------------------------------------------------
\* state enable-access

IsBlocked(stack) ==
  stack.ManagesStateFile /\ ~stack.ExternalStateAccessEnabled /\ IsTerraform(stack)

EnableAccessPlan ==
  /\ cmd = "state enable-access"
  /\ pc = "start"
  /\ blocked' = SelectSeq(sourceStacks, IsBlocked)
  /\ IF Len(blocked') = 0
     THEN pc' = "done" /\ result' = "nil" /\ idx' = idx
     ELSE pc' = "EnableExternalStateAccess" /\ result' = result /\ idx' = 1
  /\ UNCHANGED <<filterVars, setupVars, inputs, candidates, skipped, notInDest, noAccess, disabled,
                 successCount, failCount, calls, remote>>

EnableExternalStateAccess ==
  /\ pc = "EnableExternalStateAccess"
  /\ \E ok \in BOOLEAN :
       /\ calls' = Append(calls, Call("EnableExternalStateAccess", "source",
                                      blocked[idx].ID, ok))
       /\ IF ok
          THEN /\ accessEnabled' = accessEnabled \cup {blocked[idx].ID}
               /\ successCount' = successCount + 1
               /\ failCount' = failCount
          ELSE /\ accessEnabled' = accessEnabled
               /\ failCount' = failCount + 1
               /\ successCount' = successCount
  /\ LoopNext("EnableExternalStateAccess", Len(blocked))
  /\ UNCHANGED <<filterVars, setupVars, inputs, lists, result, locked, imported, enabledStacks>>

EnableAccessSummary ==
  /\ cmd = "state enable-access"
  /\ pc = "summary"
  /\ result' = IF failCount > 0 THEN "error" ELSE "nil"
  /\ pc' = "done"
  /\ UNCHANGED <<filterVars, setupVars, inputs, lists, idx, successCount, failCount, calls, remote>>

----------------------------------------------------------------------------
\* stacks enable

IsDisabledStack(stack) == stack.IsDisabled

StacksEnablePlan ==
  /\ cmd = "stacks enable"
  /\ pc = "start"
  /\ disabled' = SelectSeq(destStacks, IsDisabledStack)
  /\ IF Len(disabled') = 0 \/ dryRun
     THEN pc' = "done" /\ result' = "nil" /\ idx' = idx
     ELSE pc' = "EnableStack" /\ result' = result /\ idx' = 1
  /\ UNCHANGED <<filterVars, setupVars, inputs, candidates, skipped, notInDest, noAccess, blocked,
                 successCount, failCount, calls, remote>>

EnableStack ==
  /\ pc = "EnableStack"
  /\ \E ok \in BOOLEAN :
       /\ calls' = Append(calls, Call("EnableStack", "destination",
                                      disabled[idx].ID, ok))
       /\ IF ok
          THEN /\ enabledStacks' = enabledStacks \cup {disabled[idx].ID}
               /\ successCount' = successCount + 1
               /\ failCount' = failCount
          ELSE /\ enabledStacks' = enabledStacks
               /\ failCount' = failCount + 1
               /\ successCount' = successCount
  /\ LoopNext("EnableStack", Len(disabled))
  /\ UNCHANGED <<filterVars, setupVars, inputs, lists, result, locked, imported, accessEnabled>>

StacksEnableSummary ==
  /\ cmd = "stacks enable"
  /\ pc = "summary"
  /\ result' = IF failCount > 0 THEN "error" ELSE "nil"
  /\ pc' = "done"
  /\ UNCHANGED <<filterVars, setupVars, inputs, lists, idx, successCount, failCount, calls, remote>>

----------------------------------------------------------------------------
Next ==
  \/ MigratePlan
  \/ GetStateDownloadURL
  \/ GetStateUploadURL
  \/ StreamStateFromURL
  \/ UploadStateToURL
  \/ LockStack
  \/ ImportManagedState
  \/ UnlockStackAfterFailedImport
  \/ UnlockStack
  \/ MigrateSummary
  \/ EnableAccessPlan
  \/ EnableExternalStateAccess
  \/ EnableAccessSummary
  \/ StacksEnablePlan
  \/ EnableStack
  \/ StacksEnableSummary

Spec == Init /\ [][Next]_vars

TypeOK ==
  /\ pc \in {"start", "GetStateDownloadURL", "GetStateUploadURL", "StreamStateFromURL",
             "UploadStateToURL", "LockStack", "ImportManagedState",
             "UnlockStackAfterFailedImport", "UnlockStack", "EnableExternalStateAccess",
             "EnableStack", "summary", "done"}
  /\ result \in {"running", "nil", "error"}
  /\ successCount \in Nat /\ failCount \in Nat

----------------------------------------------------------------------------
\* state migrate --dry-run over every vendor type: classification and
\* pairing only.

ClassifyVendors == TerraformVendors \cup {"StackConfigVendorAnsible"}

InitClassify ==
  /\ cmd = "state migrate"
  /\ dryRun = TRUE
  /\ sourceStacks \in
       {MkStacks("source", sh) :
          sh \in SeqsUpTo(Shape(Names, BOOLEAN, ClassifyVendors, BOOLEAN, {FALSE}), MaxSrc)}
  /\ destStacks \in
       {MkStacks("destination", sh) :
          sh \in SeqsUpTo(Shape(Names, {TRUE}, {"StackConfigVendorOpenTofu"},
                                {FALSE}, {TRUE}), MaxDst)}
  /\ pc = "start"
  /\ candidates = <<>>
  /\ skipped = <<>>
  /\ notInDest = <<>>
  /\ noAccess = <<>>
  /\ blocked = <<>>
  /\ disabled = <<>>
  /\ idx = 0
  /\ successCount = 0
  /\ failCount = 0
  /\ result = "running"
  /\ calls = <<>>
  /\ locked = {}
  /\ imported = {}
  /\ accessEnabled = {}
  /\ enabledStacks = {}
  /\ FilterIdle
  /\ SetupIdle

NextClassify == MigratePlan

SpecClassify == InitClassify /\ [][NextClassify]_vars

----------------------------------------------------------------------------
\* generate -s: filterManifestBySpace.

\* Ids of the spaces besides root, in discovery order.
SpaceIDs == <<"a", "b", "c", "d", "e">>
NonRoot == {SpaceIDs[i] : i \in 1..MaxSpaces}
AllSpaceIDs == {"root"} \cup NonRoot
SpaceOrder == <<"root">> \o SubSeq(SpaceIDs, 1, MaxSpaces)

RECURSIVE Up(_, _, _)
\* The space reached from x by following at most k parent pointers.
Up(par, x, k) ==
  IF k = 0 \/ x \in {"root", Nil} THEN x ELSE Up(par, par[x], k - 1)

\* Parent pointers of the spaces besides root: to root, to another space, or
\* absent; every chain ends at root or at a space without parent.
ParentPointers ==
  {par \in [NonRoot -> AllSpaceIDs \cup {Nil}] :
     \A x \in NonRoot : Up(par, x, MaxSpaces) \in {"root", Nil}}

\* At most one attachment in a manifest: the stack of space `from' is attached
\* to the context (or policy) of space `to'; "gone" is a context (policy) the
\* manifest does not hold.
Attachments ==
  {[kind |-> "none", from |-> "root", to |-> "root"]}
    \cup [kind : {"context", "policy"}, from : AllSpaceIDs, to : AllSpaceIDs \cup {"gone"}]

\* A manifest with one stack, context, policy, AWS and Azure integration in
\* every space.
MkManifest(par, att) ==
  [Spaces |->
     [i \in DOMAIN SpaceOrder |->
        [ID |-> SpaceOrder[i],
         ParentSpace |-> IF SpaceOrder[i] = "root" THEN Nil ELSE par[SpaceOrder[i]]]],
   Stacks |->
     [i \in DOMAIN SpaceOrder |->
        [ID |-> <<"stack", SpaceOrder[i]>>,
         Space |-> SpaceOrder[i],
         AttachedContexts |->
           IF att.kind = "context" /\ att.from = SpaceOrder[i]
           THEN <<[ContextID |-> <<"context", att.to>>]>> ELSE <<>>,
         AttachedPolicies |->
           IF att.kind = "policy" /\ att.from = SpaceOrder[i]
           THEN <<[PolicyID |-> <<"policy", att.to>>]>> ELSE <<>>]],
   Contexts |->
     [i \in DOMAIN SpaceOrder |-> [ID |-> <<"context", SpaceOrder[i]>>, Space |-> SpaceOrder[i]]],
   Policies |->
     [i \in DOMAIN SpaceOrder |-> [ID |-> <<"policy", SpaceOrder[i]>>, Space |-> SpaceOrder[i]]],
   AWSIntegrations |->
     [i \in DOMAIN SpaceOrder |-> [ID |-> <<"aws", SpaceOrder[i]>>, Space |-> SpaceOrder[i]]],
   AzureIntegrations |->
     [i \in DOMAIN SpaceOrder |-> [ID |-> <<"azure", SpaceOrder[i]>>, Space |-> SpaceOrder[i]]]]

InitFilter ==
  /\ cmd = "generate"
  /\ dryRun = FALSE
  /\ sourceStacks = <<>>
  /\ destStacks = <<>>
  /\ pc = "filter"
  /\ candidates = <<>>
  /\ skipped = <<>>
  /\ notInDest = <<>>
  /\ noAccess = <<>>
  /\ blocked = <<>>
  /\ disabled = <<>>
  /\ idx = 0
  /\ successCount = 0
  /\ failCount = 0
  /\ result = "running"
  /\ calls = <<>>
  /\ locked = {}
  /\ imported = {}
  /\ accessEnabled = {}
  /\ enabledStacks = {}
  /\ manifest \in {MkManifest(par, att) : par \in ParentPointers, att \in Attachments}
  /\ spaceID \in AllSpaceIDs
  /\ fpc = "start"
  /\ includedSpaces = {}
  /\ ancestorSpaces = {}
  /\ currentSpaceID = ""
  /\ filteredStacks = <<>>
  /\ requiredContextIDs = {}
  /\ requiredPolicyIDs = {}
  /\ pending = {}
  /\ filtered = EmptyManifest
  /\ pass = 1
  /\ SetupIdle

\* The last element of a sequence of records with the given ID.
LastWithID(seq, id) ==
  seq[CHOOSE i \in DOMAIN seq :
        seq[i].ID = id /\ \A j \in DOMAIN seq : j > i => seq[j].ID # id]

spaceMap ==
  [id \in {manifest.Spaces[i].ID : i \in DOMAIN manifest.Spaces} |->
     LastWithID(manifest.Spaces, id)]
contextSpaceMap ==
  [id \in {manifest.Contexts[i].ID : i \in DOMAIN manifest.Contexts} |->
     LastWithID(manifest.Contexts, id).Space]
policySpaceMap ==
  [id \in {manifest.Policies[i].ID : i \in DOMAIN manifest.Policies} |->
     LastWithID(manifest.Policies, id).Space]

\* spaceMap, the two sets and the walk up from the target are set up.
FilterStart ==
  /\ fpc = "start"
  /\ IF spaceID = ""
     THEN /\ filtered' = manifest
          /\ fpc' = "done"
          /\ UNCHANGED <<includedSpaces, ancestorSpaces, currentSpaceID>>
     ELSE /\ includedSpaces' = {spaceID}
          /\ ancestorSpaces' = {"root"}
          /\ currentSpaceID' = spaceID
          /\ fpc' = "walkUp"
          /\ filtered' = filtered
  /\ UNCHANGED <<cmdVars, setupVars, pass, manifest, spaceID, filteredStacks, requiredContextIDs,
                 requiredPolicyIDs, pending>>

\* Mutant: the walk up records the ancestors for the integrations only.
WalkUpAncestors_AncestorsOnly ==
  /\ fpc = "walkUp"
  /\ IF currentSpaceID # "" /\ currentSpaceID # "root"
          /\ currentSpaceID \in DOMAIN spaceMap
     THEN LET space == spaceMap[currentSpaceID]
          IN  /\ includedSpaces' = includedSpaces
              /\ IF space.ParentSpace # Nil
                 THEN /\ currentSpaceID' = space.ParentSpace
                      /\ ancestorSpaces' =
                           ancestorSpaces \cup {currentSpaceID, space.ParentSpace}
                      /\ fpc' = "walkUp"
                 ELSE /\ currentSpaceID' = currentSpaceID
                      /\ ancestorSpaces' = ancestorSpaces \cup {currentSpaceID}
                      /\ fpc' = "descend"
     ELSE /\ fpc' = "descend"
          /\ UNCHANGED <<includedSpaces, ancestorSpaces, currentSpaceID>>
  /\ UNCHANGED <<cmdVars, setupVars, pass, manifest, spaceID, filteredStacks,
                 requiredContextIDs, requiredPolicyIDs, pending, filtered>>

\* One test and one body of the loop that walks up from the target.
WalkUpAncestors ==
  /\ fpc = "walkUp"
  /\ IF currentSpaceID # "" /\ currentSpaceID # "root"
          /\ currentSpaceID \in DOMAIN spaceMap
     THEN LET space == spaceMap[currentSpaceID]
          IN  /\ includedSpaces' = includedSpaces \cup {currentSpaceID}
              /\ IF space.ParentSpace # Nil
                 THEN /\ currentSpaceID' = space.ParentSpace
                      /\ ancestorSpaces' =
                           ancestorSpaces \cup {currentSpaceID, space.ParentSpace}
                      /\ fpc' = "walkUp"
                 ELSE /\ currentSpaceID' = currentSpaceID
                      /\ ancestorSpaces' = ancestorSpaces \cup {currentSpaceID}
                      /\ fpc' = "descend"
     ELSE /\ fpc' = "descend"
          /\ UNCHANGED <<includedSpaces, ancestorSpaces, currentSpaceID>>
  /\ UNCHANGED <<cmdVars, setupVars, pass, manifest, spaceID, filteredStacks, requiredContextIDs,
                 requiredPolicyIDs, pending, filtered>>

RECURSIVE DescendPass(_, _, _)
\* One pass of the inner loop over the first n spaces: a space whose parent is
\* included becomes included, and later spaces of the pass see it.
DescendPass(list, inc, n) ==
  IF n = 0 THEN inc
  ELSE LET r == DescendPass(list, inc, n - 1)
           space == list[n]
       IN  IF space.ParentSpace # Nil /\ space.ParentSpace \in r /\ space.ID \notin r
           THEN r \cup {space.ID}
           ELSE r

\* Mutant: the spaces are passed over once.
Descend_OnePass ==
  /\ fpc = "descend"
  /\ includedSpaces' = DescendPass(manifest.Spaces, includedSpaces, Len(manifest.Spaces))
  /\ fpc' = "stacks"
  /\ UNCHANGED <<cmdVars, setupVars, pass, manifest, spaceID, ancestorSpaces,
                 currentSpaceID, filteredStacks, requiredContextIDs, requiredPolicyIDs,
                 pending, filtered>>

\* One pass of "for changed".
Descend ==
  /\ fpc = "descend"
  /\ includedSpaces' = DescendPass(manifest.Spaces, includedSpaces, Len(manifest.Spaces))
  /\ fpc' = IF includedSpaces' # includedSpaces THEN "descend" ELSE "stacks"
  /\ UNCHANGED <<cmdVars, setupVars, pass, manifest, spaceID, ancestorSpaces, currentSpaceID,
                 filteredStacks, requiredContextIDs, requiredPolicyIDs, pending, filtered>>

StackIncluded(stack) == stack.Space \in includedSpaces

AttachedContextIDs(stack) ==
  {stack.AttachedContexts[k].ContextID : k \in DOMAIN stack.AttachedContexts}
AttachedPolicyIDs(stack) ==
  {stack.AttachedPolicies[k].PolicyID : k \in DOMAIN stack.AttachedPolicies}

\* The stacks are filtered and the attached context and policy ids collected.
FilterStacks ==
  /\ fpc = "stacks"
  /\ filteredStacks' = SelectSeq(manifest.Stacks, StackIncluded)
  /\ requiredContextIDs' =
       UNION {AttachedContextIDs(filteredStacks'[k]) : k \in DOMAIN filteredStacks'}
  /\ requiredPolicyIDs' =
       UNION {AttachedPolicyIDs(filteredStacks'[k]) : k \in DOMAIN filteredStacks'}
  /\ pending' = requiredContextIDs'
  /\ fpc' = "contexts"
  /\ UNCHANGED <<cmdVars, setupVars, pass, manifest, spaceID, includedSpaces, ancestorSpaces,
                 currentSpaceID, filtered>>

\* for contextID := range requiredContextIDs: the next key, in any order.
ContextRange ==
  /\ fpc = "contexts"
  /\ IF pending = {}
     THEN /\ pending' = requiredPolicyIDs
          /\ fpc' = "policies"
          /\ currentSpaceID' = currentSpaceID
     ELSE \E contextID \in pending :
            /\ pending' = pending \ {contextID}
            /\ IF contextID \in DOMAIN contextSpaceMap
               THEN currentSpaceID' = contextSpaceMap[contextID] /\ fpc' = "contextWalk"
               ELSE currentSpaceID' = currentSpaceID /\ fpc' = "contexts"
  /\ UNCHANGED <<cmdVars, setupVars, pass, manifest, spaceID, includedSpaces, ancestorSpaces,
                 filteredStacks, requiredContextIDs, requiredPolicyIDs, filtered>>

\* One test and one body of the loop that walks up from the space of a
\* required context or policy; `back' is where the range loop goes on.
WalkUpRequired(here, back) ==
  /\ fpc = here
  /\ IF currentSpaceID # "" /\ currentSpaceID # "root"
          /\ currentSpaceID \in DOMAIN spaceMap
     THEN LET space == spaceMap[currentSpaceID]
          IN  /\ includedSpaces' = includedSpaces \cup {currentSpaceID}
              /\ IF space.ParentSpace # Nil
                 THEN currentSpaceID' = space.ParentSpace /\ fpc' = here
                 ELSE currentSpaceID' = currentSpaceID /\ fpc' = back
     ELSE /\ fpc' = back
          /\ UNCHANGED <<includedSpaces, currentSpaceID>>
  /\ UNCHANGED <<cmdVars, setupVars, pass, manifest, spaceID, ancestorSpaces, filteredStacks,
                 requiredContextIDs, requiredPolicyIDs, pending, filtered>>

ContextWalk == WalkUpRequired("contextWalk", "contexts")

\* for policyID := range requiredPolicyIDs: the next key, in any order.
PolicyRange ==
  /\ fpc = "policies"
  /\ IF pending = {}
     THEN /\ pending' = pending
          /\ fpc' = "filter"
          /\ currentSpaceID' = currentSpaceID
     ELSE \E policyID \in pending :
            /\ pending' = pending \ {policyID}
            /\ IF policyID \in DOMAIN policySpaceMap
               THEN currentSpaceID' = policySpaceMap[policyID] /\ fpc' = "policyWalk"
               ELSE currentSpaceID' = currentSpaceID /\ fpc' = "policies"
  /\ UNCHANGED <<cmdVars, setupVars, pass, manifest, spaceID, includedSpaces, ancestorSpaces,
                 filteredStacks, requiredContextIDs, requiredPolicyIDs, filtered>>

PolicyWalk == WalkUpRequired("policyWalk", "policies")

\* Mutant: the ancestors of the target are left out of the Spaces array.
SpaceIncluded_NoAncestors(space) ==
  space.ID \in includedSpaces \ (ancestorSpaces \ {spaceID})
SpaceIncluded(space) == space.ID \in includedSpaces
\* Mutant: a context is kept for its space only.
ContextIncluded_SpaceOnly(ctx) == ctx.Space \in includedSpaces
ContextIncluded(ctx) == ctx.Space \in includedSpaces \/ ctx.ID \in requiredContextIDs
PolicyIncluded(policy) ==
  policy.Space \in includedSpaces \/ policy.ID \in requiredPolicyIDs
IntegrationIncluded(integration) ==
  integration.Space \in includedSpaces \/ integration.Space \in ancestorSpaces

\* Mutant: the stacks are filtered at the end, with the spaces of the
\* cross-references included.
FilterRest_StacksLast ==
  /\ fpc = "filter"
  /\ filtered' =
       [Spaces |-> SelectSeq(manifest.Spaces, SpaceIncluded),
        Stacks |-> SelectSeq(manifest.Stacks, StackIncluded),
        Contexts |-> SelectSeq(manifest.Contexts, ContextIncluded),
        Policies |-> SelectSeq(manifest.Policies, PolicyIncluded),
        AWSIntegrations |-> SelectSeq(manifest.AWSIntegrations, IntegrationIncluded),
        AzureIntegrations |-> SelectSeq(manifest.AzureIntegrations, IntegrationIncluded)]
  /\ fpc' = "done"
  /\ UNCHANGED <<cmdVars, setupVars, pass, manifest, spaceID, includedSpaces, ancestorSpaces,
                 currentSpaceID, filteredStacks, requiredContextIDs, requiredPolicyIDs,
                 pending>>

\* Spaces, contexts, policies and integrations are filtered and the new
\* manifest is returned.
FilterRest ==
  /\ fpc = "filter"
  /\ filtered' =
       [Spaces |-> SelectSeq(manifest.Spaces, SpaceIncluded),
        Stacks |-> filteredStacks,
        Contexts |-> SelectSeq(manifest.Contexts, ContextIncluded),
        Policies |-> SelectSeq(manifest.Policies, PolicyIncluded),
        AWSIntegrations |-> SelectSeq(manifest.AWSIntegrations, IntegrationIncluded),
        AzureIntegrations |-> SelectSeq(manifest.AzureIntegrations, IntegrationIncluded)]
  /\ fpc' = "done"
  /\ UNCHANGED <<cmdVars, setupVars, pass, manifest, spaceID, includedSpaces, ancestorSpaces,
                 currentSpaceID, filteredStacks, requiredContextIDs, requiredPolicyIDs,
                 pending>>

NextFilter ==
  \/ FilterStart
  \/ WalkUpAncestors
  \/ Descend
  \/ FilterStacks
  \/ ContextRange
  \/ ContextWalk
  \/ PolicyRange
  \/ PolicyWalk
  \/ FilterRest

SpecFilter == InitFilter /\ [][NextFilter]_vars

\* filterManifestBySpace(filterManifestBySpace(manifest, spaceID), spaceID):
\* the manifest returned is given to the filter again, with the same target.
\* Until the second application returns, `filtered' keeps the first result.
Refilter ==
  /\ fpc = "done"
  /\ pass = 1
  /\ manifest' = filtered
  /\ pass' = 2
  /\ fpc' = "start"
  /\ includedSpaces' = {}
  /\ ancestorSpaces' = {}
  /\ currentSpaceID' = ""
  /\ filteredStacks' = <<>>
  /\ requiredContextIDs' = {}
  /\ requiredPolicyIDs' = {}
  /\ pending' = {}
  /\ UNCHANGED <<cmdVars, setupVars, spaceID, filtered>>

NextRefilter == NextFilter \/ Refilter

SpecRefilter == InitFilter /\ [][NextRefilter]_vars

----------------------------------------------------------------------------
\* discovery.Service.DiscoverAll: one query per sub-fetch, in program order.

MaxIntegrations == 2   \* AWS integrations, and Azure integrations, of the account

\* One element of AttachedStacks in the answer to an attachments query.
AttachedStack(id, isModule) == [StackID |-> id, IsModule |-> isModule]

\* What an integration reports as attached: nothing, a stack, a stack and a
\* stack the account does not list ("gone"), a module and a stack.
AttachedStackSets ==
  {{},
   {AttachedStack("s1", FALSE)},
   {AttachedStack("s1", FALSE), AttachedStack("gone", FALSE)},
   {AttachedStack("s1", TRUE), AttachedStack("s2", FALSE)}}

DiscoveredStack(id) ==
  [ID |-> id, AttachedAWSIntegrations |-> <<>>, AttachedAzureIntegrations |-> <<>>]

Integrations(kind, n) ==
  [i \in 1..n |-> [ID |-> <<kind, i>>, Name |-> <<kind, "name", i>>]]

\* What the account holds: one space, context and policy, two stacks, up to
\* MaxIntegrations integrations of each kind, and the stacks each one reports.
Accounts ==
  {[Spaces |-> <<[ID |-> "root", ParentSpace |-> Nil]>>,
    Contexts |-> <<[ID |-> "c1", Space |-> "root"]>>,
    Policies |-> <<[ID |-> "p1", Space |-> "root"]>>,
    Stacks |-> <<DiscoveredStack("s1"), DiscoveredStack("s2")>>,
    AWSIntegrations |-> Integrations("aws", Len(aws)),
    AzureIntegrations |-> Integrations("azure", Len(azure)),
    AWSAttachedStacks |-> aws,
    AzureAttachedStacks |-> azure] :
     aws \in SeqsUpTo(AttachedStackSets, MaxIntegrations),
     azure \in SeqsUpTo(AttachedStackSets, MaxIntegrations)}

InitDiscover ==
  /\ cmd = "discover all"
  /\ dryRun = FALSE
  /\ sourceStacks = <<>>
  /\ destStacks = <<>>
  /\ pc = "DiscoverSpaces"
  /\ candidates = <<>>
  /\ skipped = <<>>
  /\ notInDest = <<>>
  /\ noAccess = <<>>
  /\ blocked = <<>>
  /\ disabled = <<>>
  /\ idx = 0
  /\ successCount = 0
  /\ failCount = 0
  /\ result = "running"
  /\ calls = <<>>
  /\ locked = {}
  /\ imported = {}
  /\ accessEnabled = {}
  /\ enabledStacks = {}
  /\ manifest = EmptyManifest
  /\ spaceID = ""
  /\ fpc = "idle"
  /\ includedSpaces = {}
  /\ ancestorSpaces = {}
  /\ currentSpaceID = ""
  /\ filteredStacks = <<>>
  /\ requiredContextIDs = {}
  /\ requiredPolicyIDs = {}
  /\ pending = {}
  /\ filtered = EmptyManifest
  /\ pass = 0
  /\ cfg = [Source |-> [URL |-> "set", KeyID |-> "set", SecretKey |-> "set"],
            Destination |-> [URL |-> "", KeyID |-> "", SecretKey |-> ""]]
  /\ clients = {"source"}
  /\ spaceFilter = <<>>
  /\ spaces = <<>>
  /\ accountData \in Accounts
  /\ returned = NotReturned
  /\ WireIdle

\* What DiscoverAll leaves alone.
outsideDiscoverAll ==
  <<cmd, dryRun, sourceStacks, destStacks, candidates, skipped, notInDest, noAccess,
    blocked, disabled, successCount, failCount, result, locked, imported,
    accessEnabled, enabledStacks, spaceID, fpc, includedSpaces, ancestorSpaces,
    currentSpaceID, filteredStacks, requiredContextIDs, requiredPolicyIDs, pending,
    filtered, pass, cfg, clients, spaceFilter, spaces, accountData, status, transport,
    now>>

\* return nil, fmt.Errorf(...)
ReturnError(err) ==
  /\ returned' = [manifest |-> NilManifest, err |-> err]
  /\ pc' = "done"
  /\ UNCHANGED <<manifest, idx>>

\* One of the six sub-fetches that fill a field of the manifest.
SubFetch(here, field, err, next) ==
  /\ pc = here
  /\ \E ok \in BOOLEAN :
       /\ calls' = Append(calls, Call(here, "source", Nil, ok))
       /\ IF ok
          THEN /\ manifest' = [manifest EXCEPT ![field] = accountData[field]]
               /\ pc' = next
               /\ UNCHANGED <<idx, returned>>
          ELSE ReturnError(<<err>>)
  /\ UNCHANGED outsideDiscoverAll

DiscoverSpaces ==
  SubFetch("DiscoverSpaces", "Spaces", "failed to discover spaces", "DiscoverContexts")
DiscoverContexts ==
  SubFetch("DiscoverContexts", "Contexts", "failed to discover contexts",
           "DiscoverPolicies")
DiscoverPolicies ==
  SubFetch("DiscoverPolicies", "Policies", "failed to discover policies",
           "DiscoverStacks")
DiscoverStacks ==
  SubFetch("DiscoverStacks", "Stacks", "failed to discover stacks",
           "DiscoverAWSIntegrations")
DiscoverAWSIntegrations ==
  SubFetch("DiscoverAWSIntegrations", "AWSIntegrations",
           "failed to discover AWS integrations", "DiscoverAzureIntegrations")

\* The range loop over azureIntegrations stands before element i, or is over.
AzureLoop(azureIntegrations, i) ==
  IF i <= Len(azureIntegrations)
  THEN pc' = "DiscoverAzureIntegrationAttachments" /\ idx' = i
  ELSE pc' = "return" /\ idx' = 0

\* The range loop over awsIntegrations stands before element i, or is over
\* and the loop over azureIntegrations begins.
AWSLoop(awsIntegrations, azureIntegrations, i) ==
  IF i <= Len(awsIntegrations)
  THEN pc' = "DiscoverAWSIntegrationAttachments" /\ idx' = i
  ELSE AzureLoop(azureIntegrations, 1)

DiscoverAzureIntegrations ==
  /\ pc = "DiscoverAzureIntegrations"
  /\ \E ok \in BOOLEAN :
       /\ calls' = Append(calls, Call("DiscoverAzureIntegrations", "source", Nil, ok))
       /\ IF ok
          THEN /\ manifest' =
                    [manifest EXCEPT !.AzureIntegrations = accountData.AzureIntegrations]
               /\ AWSLoop(manifest.AWSIntegrations, accountData.AzureIntegrations, 1)
               /\ UNCHANGED returned
          ELSE ReturnError(<<"failed to discover Azure integrations">>)
  /\ UNCHANGED outsideDiscoverAll

\* stackIndex: the index of the last stack with the id.
stackIndex ==
  [id \in {manifest.Stacks[i].ID : i \in DOMAIN manifest.Stacks} |->
     CHOOSE i \in DOMAIN manifest.Stacks :
       /\ manifest.Stacks[i].ID = id
       /\ \A j \in DOMAIN manifest.Stacks : j > i => manifest.Stacks[j].ID # id]

\* Mutant: the module attachments are kept as well.
AttachmentKeys_ModulesKept(attachedStacks) ==
  {a.StackID : a \in attachedStacks}

\* DiscoverAWSIntegrationAttachments, DiscoverAzureIntegrationAttachments: the
\* keys of the map returned. for _, a := range AttachedStacks { if a.IsModule
\* { continue }; attachments[a.StackID] = ... }
AttachmentKeys(attachedStacks) ==
  {a.StackID : a \in {b \in attachedStacks : ~b.IsModule}}

\* The attachment of the integration is appended to every stack of the
\* manifest that the integration reports.
Attach(field, integrationID, stackIDs) ==
  [i \in DOMAIN manifest.Stacks |->
     IF /\ manifest.Stacks[i].ID \in stackIDs
        /\ stackIndex[manifest.Stacks[i].ID] = i
     THEN [manifest.Stacks[i] EXCEPT
             ![field] = Append(@, [IntegrationID |-> integrationID])]
     ELSE manifest.Stacks[i]]

\* Mutant: a failed attachment query is skipped and the loop goes on.
DiscoverAWSIntegrationAttachments_ErrorIgnored ==
  /\ pc = "DiscoverAWSIntegrationAttachments"
  /\ LET integration == manifest.AWSIntegrations[idx]
     IN  \E ok \in BOOLEAN :
           /\ calls' = Append(calls, Call("DiscoverAWSIntegrationAttachments", "source",
                                          integration.ID, ok))
           /\ manifest' =
                IF ok
                THEN [manifest EXCEPT
                        !.Stacks = Attach("AttachedAWSIntegrations", integration.ID,
                                          AttachmentKeys(accountData.AWSAttachedStacks[idx]))]
                ELSE manifest
           /\ AWSLoop(manifest.AWSIntegrations, manifest.AzureIntegrations, idx + 1)
           /\ UNCHANGED returned
  /\ UNCHANGED outsideDiscoverAll

DiscoverAWSIntegrationAttachments ==
  /\ pc = "DiscoverAWSIntegrationAttachments"
  /\ LET integration == manifest.AWSIntegrations[idx]
     IN  \E ok \in BOOLEAN :
           /\ calls' = Append(calls, Call("DiscoverAWSIntegrationAttachments", "source",
                                          integration.ID, ok))
           /\ IF ok
              THEN /\ manifest' =
                        [manifest EXCEPT
                           !.Stacks = Attach("AttachedAWSIntegrations", integration.ID,
                                             AttachmentKeys(accountData.AWSAttachedStacks[idx]))]
                   /\ AWSLoop(manifest.AWSIntegrations, manifest.AzureIntegrations,
                              idx + 1)
                   /\ UNCHANGED returned
              ELSE ReturnError(<<"failed to discover AWS integration attachments for",
                                 integration.Name>>)
  /\ UNCHANGED outsideDiscoverAll

DiscoverAzureIntegrationAttachments ==
  /\ pc = "DiscoverAzureIntegrationAttachments"
  /\ LET integration == manifest.AzureIntegrations[idx]
     IN  \E ok \in BOOLEAN :
           /\ calls' = Append(calls, Call("DiscoverAzureIntegrationAttachments", "source",
                                          integration.ID, ok))
           /\ IF ok
              THEN /\ manifest' =
                        [manifest EXCEPT
                           !.Stacks = Attach("AttachedAzureIntegrations", integration.ID,
                                             AttachmentKeys(accountData.AzureAttachedStacks[idx]))]
                   /\ AzureLoop(manifest.AzureIntegrations, idx + 1)
                   /\ UNCHANGED returned
              ELSE ReturnError(<<"failed to discover Azure integration attachments for",
                                 integration.Name>>)
  /\ UNCHANGED outsideDiscoverAll

\* return manifest, nil
DiscoverAllReturn ==
  /\ pc = "return"
  /\ returned' = [manifest |-> manifest, err |-> <<>>]
  /\ pc' = "done"
  /\ UNCHANGED <<manifest, idx, calls>>
  /\ UNCHANGED outsideDiscoverAll

NextDiscover ==
  \/ DiscoverSpaces
  \/ DiscoverContexts
  \/ DiscoverPolicies
  \/ DiscoverStacks
  \/ DiscoverAWSIntegrations
  \/ DiscoverAzureIntegrations
  \/ DiscoverAWSIntegrationAttachments
  \/ DiscoverAzureIntegrationAttachments
  \/ DiscoverAllReturn

SpecDiscover == InitDiscover /\ [][NextDiscover]_vars

----------------------------------------------------------------------------
\* -s/--space: how each command turns the token into the space id it filters
\* by. Tokens, ids and names are sequences of characters.

MaxToken == 3      \* characters of a -s token
MaxIDLen == 2      \* characters of a space id

Chars == {"a", "-"}

Tokens == SeqsUpTo(Chars, MaxToken)
SpaceIDStrings == SeqsUpTo(Chars, MaxIDLen) \ {<<>>}
SpaceNames == {<<"a">>, <<"-", "a">>}

SpaceRecords == [ID : SpaceIDStrings, Name : SpaceNames]

\* What DiscoverSpaces returns: no, one or two spaces; ids are unique, names
\* need not be.
Snapshots ==
  {<<>>} \cup {<<x>> : x \in SpaceRecords}
         \cup {p \in {<<x, y>> : x \in SpaceRecords, y \in SpaceRecords} :
                 p[1].ID # p[2].ID}

SpaceCommands ==
  {"generate", "state plan", "state enable-access", "state migrate", "stacks enable"}

\* No command loop has run and nothing was called.
NothingRun ==
  /\ dryRun = FALSE
  /\ sourceStacks = <<>>
  /\ destStacks = <<>>
  /\ candidates = <<>>
  /\ skipped = <<>>
  /\ notInDest = <<>>
  /\ noAccess = <<>>
  /\ blocked = <<>>
  /\ disabled = <<>>
  /\ idx = 0
  /\ successCount = 0
  /\ failCount = 0
  /\ result = "running"
  /\ calls = <<>>
  /\ locked = {}
  /\ imported = {}
  /\ accessEnabled = {}
  /\ enabledStacks = {}

InitSpace ==
  /\ cmd \in SpaceCommands
  /\ pc = "space"
  /\ NothingRun
  /\ manifest = EmptyManifest
  /\ spaceID = <<>>
  /\ fpc = "idle"
  /\ includedSpaces = {}
  /\ ancestorSpaces = {}
  /\ currentSpaceID = ""
  /\ filteredStacks = <<>>
  /\ requiredContextIDs = {}
  /\ requiredPolicyIDs = {}
  /\ pending = {}
  /\ filtered = EmptyManifest
  /\ pass = 0
  /\ cfg = [Source |-> [URL |-> "set", KeyID |-> "set", SecretKey |-> "set"],
            Destination |-> [URL |-> "set", KeyID |-> "set", SecretKey |-> "set"]]
  /\ clients = {"source", "destination"}
  /\ spaceFilter \in Tokens
  /\ spaces \in Snapshots
  /\ accountData = EmptyManifest
  /\ returned = NotReturned
  /\ WireIdle

\* spaceByID of resolveSpaceFilter: the last space with each id.
spaceByID(list) ==
  [id \in {list[i].ID : i \in DOMAIN list} |-> LastWithID(list, id)]

Resolved(space) == [spaceID |-> space.ID, displayName |-> space.Name, err |-> Nil]
NotResolved == [spaceID |-> <<>>, displayName |-> <<>>, err |-> "space not found"]

\* for i := len(filter) - 1; i >= 0; i--: position i of the model is index
\* i - 1 of the code. At a hyphen the rest of the token is looked up; when it
\* is no id the loop goes on to the left.
RECURSIVE ScanHyphens(_, _, _)
ScanHyphens(list, filter, i) ==
  IF i = 0 THEN NotResolved
  ELSE IF /\ filter[i] = "-"
          /\ SubSeq(filter, i + 1, Len(filter)) \in DOMAIN spaceByID(list)
       THEN Resolved(spaceByID(list)[SubSeq(filter, i + 1, Len(filter))])
       ELSE ScanHyphens(list, filter, i - 1)

\* The first space of the list with the name.
FirstNamed(list, name) ==
  list[CHOOSE i \in DOMAIN list :
         list[i].Name = name /\ \A j \in DOMAIN list : j < i => list[j].Name # name]

\* Mutant: the name is tried before the id.
resolveSpaceFilter_NameFirst(list, filter) ==
  IF \E i \in DOMAIN list : list[i].Name = filter
  THEN Resolved(FirstNamed(list, filter))
  ELSE IF filter \in DOMAIN spaceByID(list)
       THEN Resolved(spaceByID(list)[filter])
       ELSE ScanHyphens(list, filter, Len(filter))

\* resolveSpaceFilter, after DiscoverSpaces returned the list.
resolveSpaceFilter(list, filter) ==
  IF filter \in DOMAIN spaceByID(list)
  THEN Resolved(spaceByID(list)[filter])
  ELSE IF \E i \in DOMAIN list : list[i].Name = filter
       THEN Resolved(FirstNamed(list, filter))
       ELSE ScanHyphens(list, filter, Len(filter))

\* What the space stage leaves alone.
outsideSpaceStage ==
  <<cmd, dryRun, sourceStacks, destStacks, candidates, skipped, notInDest, noAccess,
    blocked, disabled, idx, successCount, failCount, locked, imported, accessEnabled,
    enabledStacks, manifest, fpc, includedSpaces, ancestorSpaces, currentSpaceID,
    filteredStacks, requiredContextIDs, requiredPolicyIDs, pending, filtered, pass,
    cfg, clients, spaceFilter, spaces, accountData, returned, status, transport, now>>

\* state plan, state enable-access, state migrate: if spaceFilter != "", the
\* token is resolved against the spaces of the source account and the stacks
\* are compared with the resolved id.
StateSpaceFilter ==
  /\ cmd \in {"state plan", "state enable-access", "state migrate"}
  /\ pc = "space"
  /\ IF spaceFilter = <<>>
     THEN pc' = "unfiltered" /\ UNCHANGED <<spaceID, result, calls>>
     ELSE \E ok \in BOOLEAN :
            /\ calls' = Append(calls, Call("DiscoverSpaces", "source", Nil, ok))
            /\ IF ok /\ resolveSpaceFilter(spaces, spaceFilter).err = Nil
               THEN /\ spaceID' = resolveSpaceFilter(spaces, spaceFilter).spaceID
                    /\ pc' = "filterBySpace"
                    /\ result' = result
               ELSE /\ spaceID' = spaceID
                    /\ pc' = "done"
                    /\ result' = "error"
  /\ UNCHANGED outsideSpaceStage

\* generate: if filterSpace != "", filterManifestBySpace is given the token.
GenerateSpaceFilter ==
  /\ cmd = "generate"
  /\ pc = "space"
  /\ IF spaceFilter = <<>>
     THEN pc' = "unfiltered" /\ spaceID' = spaceID
     ELSE pc' = "filterBySpace" /\ spaceID' = spaceFilter
  /\ UNCHANGED <<result, calls>>
  /\ UNCHANGED outsideSpaceStage

\* stacks enable: if spaceFilter != "", stack.Space is compared with the token.
StacksEnableSpaceFilter ==
  /\ cmd = "stacks enable"
  /\ pc = "space"
  /\ IF spaceFilter = <<>>
     THEN pc' = "unfiltered" /\ spaceID' = spaceID
     ELSE pc' = "filterBySpace" /\ spaceID' = spaceFilter
  /\ UNCHANGED <<result, calls>>
  /\ UNCHANGED outsideSpaceStage

NextSpace ==
  \/ StateSpaceFilter
  \/ GenerateSpaceFilter
  \/ StacksEnableSpaceFilter

SpecSpace == InitSpace /\ [][NextSpace]_vars

----------------------------------------------------------------------------
\* Credentials: what each command validates before it creates a client and
\* sends its first request.

\* A field of a triple is "" when its environment variable is not set.
Triples == [URL : {"", "set"}, KeyID : {"", "set"}, SecretKey : {"", "set"}]

\* AccountConfig.Validate: nil, or the error of the first empty field.
Validate(c) ==
  IF c.URL = "" THEN "spacelift URL is required"
  ELSE IF c.KeyID = "" THEN "spacelift API key ID is required"
  ELSE IF c.SecretKey = "" THEN "spacelift API secret key is required"
  ELSE Nil

\* Commands that begin with createDiscoveryService.
DiscoveryCommands == {"export", "discover all", "generate", "state plan",
                      "state enable-access"}

ConfigCommands == DiscoveryCommands \cup {"state migrate", "stacks enable"}

InitConfig ==
  /\ cmd \in ConfigCommands
  /\ pc = IF cmd = "stacks enable" THEN "ValidateDestination" ELSE "ValidateSource"
  /\ NothingRun
  /\ FilterIdle
  /\ cfg \in [Source : Triples, Destination : Triples]
  /\ clients = {}
  /\ spaceFilter = <<>>
  /\ spaces = <<>>
  /\ accountData = EmptyManifest
  /\ returned = NotReturned
  /\ WireIdle

\* What the credential stage leaves alone.
outsideConfigStage ==
  <<cmd, dryRun, sourceStacks, destStacks, candidates, skipped, notInDest, noAccess,
    blocked, disabled, idx, successCount, failCount, locked, imported, accessEnabled,
    enabledStacks, filterVars, cfg, spaceFilter, spaces, accountData, returned, status,
    transport, now>>

\* Mutant: the source triple is not validated by the command.
ValidateSource_Skipped ==
  /\ pc = "ValidateSource"
  /\ pc' = IF cmd = "state migrate" THEN "ValidateDestination" ELSE "NewSourceClient"
  /\ UNCHANGED <<result, clients, calls>>
  /\ UNCHANGED outsideConfigStage

\* cfg.ValidateSource(), first statement of runStateMigrate and of
\* createDiscoveryService.
ValidateSource ==
  /\ pc = "ValidateSource"
  /\ IF Validate(cfg.Source) # Nil
     THEN pc' = "done" /\ result' = "source configuration error"
     ELSE /\ pc' = IF cmd = "state migrate" THEN "ValidateDestination"
                   ELSE "NewSourceClient"
          /\ result' = result
  /\ UNCHANGED <<clients, calls>>
  /\ UNCHANGED outsideConfigStage

\* cfg.ValidateDestination(), in runStateMigrate and runStacksEnable.
ValidateDestination ==
  /\ pc = "ValidateDestination"
  /\ IF Validate(cfg.Destination) # Nil
     THEN pc' = "done" /\ result' = "destination configuration error"
     ELSE /\ pc' = IF cmd = "state migrate" THEN "NewSourceClient" ELSE "NewDestClient"
          /\ result' = result
  /\ UNCHANGED <<clients, calls>>
  /\ UNCHANGED outsideConfigStage

\* client.New validates the triple again and builds the client; it sends
\* nothing.
NewClient(here, accountName, triple, next) ==
  /\ pc = here
  /\ IF Validate(triple) # Nil
     THEN pc' = "done" /\ result' = "failed to create client" /\ clients' = clients
     ELSE pc' = next /\ result' = result /\ clients' = clients \cup {accountName}
  /\ calls' = calls
  /\ UNCHANGED outsideConfigStage

NewSourceClient ==
  NewClient("NewSourceClient", "source", cfg.Source,
            IF cmd = "state migrate" THEN "NewDestClient" ELSE "request")

NewDestClient == NewClient("NewDestClient", "destination", cfg.Destination, "request")

\* The first request of the command, through the client it goes to the
\* account of: the destination for stacks enable, the source otherwise.
FirstRequest ==
  /\ pc = "request"
  /\ \E ok \in BOOLEAN :
       calls' = Append(calls, Call("Query",
                                   IF cmd = "stacks enable" THEN "destination"
                                   ELSE "source", Nil, ok))
  /\ pc' = "requested"
  /\ UNCHANGED <<result, clients>>
  /\ UNCHANGED outsideConfigStage

NextConfig ==
  \/ ValidateSource
  \/ ValidateDestination
  \/ NewSourceClient
  \/ NewDestClient
  \/ FirstRequest

SpecConfig == InitConfig /\ [][NextConfig]_vars

----------------------------------------------------------------------------
\* Reading the record of calls.

MigrateOps ==
  <<"GetStateDownloadURL", "GetStateUploadURL", "StreamStateFromURL",
    "UploadStateToURL", "LockStack", "ImportManagedState", "UnlockStack">>

IsCallOf(i, c) == c.cand = i
CallsOf(i) == SelectSeq(calls, LAMBDA c : IsCallOf(i, c))

Issued(i, op) == \E k \in DOMAIN calls : calls[k].cand = i /\ calls[k].op = op
Succeeded(i, op) ==
  \E k \in DOMAIN calls : calls[k].cand = i /\ calls[k].op = op /\ calls[k].ok
Failed(i, op) ==
  \E k \in DOMAIN calls : calls[k].cand = i /\ calls[k].op = op /\ ~calls[k].ok
Count(i, op) ==
  Cardinality({k \in DOMAIN calls : calls[k].cand = i /\ calls[k].op = op})

BeforeLockOps ==
  {"GetStateDownloadURL", "GetStateUploadURL", "StreamStateFromURL", "UploadStateToURL"}
LockRegionOps == {"LockStack", "ImportManagedState", "UnlockStack"}

\* Candidates with a failing step other than the unlock.
FailedCands ==
  {i \in 1..Len(candidates) :
     \E op \in BeforeLockOps \cup {"LockStack", "ImportManagedState"} : Failed(i, op)}

\* Stacks whose unlock call returned an error.
FailedUnlockStacks ==
  {calls[k].stack : k \in {j \in DOMAIN calls :
                             calls[j].op = "UnlockStack" /\ ~calls[j].ok}}

InMigrate == cmd = "state migrate"
BetweenCandidates == pc \in {"GetStateDownloadURL", "summary", "done"}
InLockedRegion ==
  pc \in {"ImportManagedState", "UnlockStack", "UnlockStackAfterFailedImport"}

----------------------------------------------------------------------------
\* C1 (as stated): whenever state migrate starts the next candidate, and when
\* the pipeline has finished, no destination stack locked by this run is still
\* locked, whatever the remote calls returned (a failing unlock included).
C1_NoLockLeftBetweenCandidates ==
  (InMigrate /\ BetweenCandidates) => locked = {}

\* C1 (amended): a lock is taken and its release attempted inside the transfer
\* of one candidate: outside the locked region of the current candidate the
\* only stacks still locked are those whose UnlockStack call failed.
C1_LockLeftOnlyByFailedUnlock ==
  InMigrate =>
    /\ locked \ FailedUnlockStacks \subseteq
         (IF InLockedRegion THEN {candidates[idx].Dest.ID} ELSE {})
    /\ BetweenCandidates =>
         \A i \in 1..Len(candidates) :
           Succeeded(i, "LockStack") => Issued(i, "UnlockStack")

C1_Witness ==
  /\ InMigrate /\ pc = "GetStateDownloadURL" /\ idx = 2
  /\ Succeeded(1, "LockStack") /\ Succeeded(1, "UnlockStack")
  /\ locked = {}

\* C2: per candidate the remote operations are issued in the fixed order
\* download URL, upload URL, download, upload, lock, import, unlock, each at
\* most once, and each one but the unlock only after all earlier ones succeeded.
C2_FixedOrderNoRetry ==
  InMigrate =>
    /\ \A j, k \in DOMAIN calls : j < k => calls[j].cand <= calls[k].cand
    /\ \A i \in 1..Len(candidates) :
         LET s == CallsOf(i)
         IN  /\ Len(s) <= Len(MigrateOps)
             /\ \A k \in DOMAIN s :
                  /\ s[k].op = MigrateOps[k]
                  /\ \A j \in 1..(k - 1) :
                       s[j].ok \/ (s[k].op = "UnlockStack" /\ s[j].op = "ImportManagedState")

C2_Witness ==
  /\ InMigrate
  /\ Len(candidates) >= 1
  /\ Len(CallsOf(1)) = Len(MigrateOps)
  /\ \A k \in DOMAIN CallsOf(1) : CallsOf(1)[k].ok

\* C3: a failure of download URL, upload URL, download or upload counts the
\* candidate as failed at once (the loop has moved on and failCount includes
\* it) and no lock, import or unlock call is issued for it.
C3_FailureBeforeLock ==
  InMigrate =>
    /\ \A i \in 1..Len(candidates) :
         (\E op \in BeforeLockOps : Failed(i, op)) =>
           /\ \A op \in LockRegionOps : ~Issued(i, op)
           /\ i < idx
    /\ failCount = Cardinality({i \in FailedCands : i < idx})

C3_Witness ==
  /\ InMigrate /\ pc = "done"
  /\ Failed(1, "UploadStateToURL")
  /\ failCount = 1

\* C4: for every candidate whose transfer has ended, UnlockStack was attempted
\* exactly once if LockStack succeeded (whether the import succeeded or
\* failed) and not at all otherwise.
C4_UnlockIffLocked ==
  InMigrate =>
    /\ \A i \in 1..Len(candidates) :
         /\ Count(i, "UnlockStack") <= 1
         /\ Issued(i, "UnlockStack") => Succeeded(i, "LockStack")
         /\ i < idx => (Succeeded(i, "LockStack") <=> Count(i, "UnlockStack") = 1)

C4_Witness ==
  /\ InMigrate /\ pc = "done" /\ Len(candidates) = 2
  /\ Failed(1, "ImportManagedState") /\ Issued(1, "UnlockStack")
  /\ Succeeded(2, "ImportManagedState") /\ Issued(2, "UnlockStack")

\* C5: once the loop has ended every candidate was started, failCount is the
\* number of candidates with a failing step among download URL, upload URL,
\* download, upload, lock, import, and successCount is the number of the others.
C5_Isolation ==
  (InMigrate /\ pc \in {"summary", "done"} /\ ~dryRun /\ Len(candidates) > 0) =>
    /\ \A i \in 1..Len(candidates) : Issued(i, "GetStateDownloadURL")
    /\ failCount = Cardinality(FailedCands)
    /\ successCount = Len(candidates) - Cardinality(FailedCands)

C5_Witness ==
  /\ InMigrate /\ pc = "done" /\ Len(candidates) = 2
  /\ Failed(1, "StreamStateFromURL")
  /\ Succeeded(2, "ImportManagedState")
  /\ failCount = 1 /\ successCount = 1

\* C6: with --dry-run state migrate and stacks enable issue no remote call,
\* change nothing in either account, and return nil.
C6_DryRunNoCalls ==
  dryRun =>
    /\ calls = <<>>
    /\ locked = {} /\ imported = {} /\ accessEnabled = {} /\ enabledStacks = {}
    /\ pc \in {"start", "done"}
    /\ pc = "done" => result = "nil"

C6_Witness ==
  /\ dryRun /\ InMigrate /\ pc = "done"
  /\ Len(candidates) = 1
  /\ result = "nil"

\* C7: a command whose per-stack loop has run returns an error iff failCount is
\* positive, failCount being positive iff a per-stack operation failed; what
\* succeeded stays in effect.
LoopRan == pc = "done" /\ idx > 0

C7_ErrorIffFailed ==
  LoopRan =>
    /\ result = "error" <=> failCount > 0
    /\ failCount > 0 <=>
         \E k \in DOMAIN calls : ~calls[k].ok /\ calls[k].op # "UnlockStack"
    /\ \A k \in DOMAIN calls :
         calls[k].ok =>
           CASE calls[k].op = "ImportManagedState" -> calls[k].stack \in imported
             [] calls[k].op = "EnableExternalStateAccess" -> calls[k].stack \in accessEnabled
             [] calls[k].op = "EnableStack" -> calls[k].stack \in enabledStacks
             [] OTHER -> TRUE

C7_Witness ==
  /\ LoopRan /\ InMigrate
  /\ result = "error"
  /\ successCount = 1 /\ failCount = 1
  /\ imported # {}

----------------------------------------------------------------------------
\* The five dispositions of a source stack, as conditions that exclude each
\* other.
TerraformFamily(stack) ==
  stack.VendorType \in
    {"StackConfigVendorTerraform", "StackConfigVendorOpenTofu", "StackConfigVendorTerragrunt"}
DestNames == {destStacks[j].Name : j \in DOMAIN destStacks}

SkipSelfManaged(stack) == ~stack.ManagesStateFile
SkipVendor(stack) == stack.ManagesStateFile /\ ~TerraformFamily(stack)
BlockedNoAccess(stack) ==
  stack.ManagesStateFile /\ TerraformFamily(stack) /\ ~stack.ExternalStateAccessEnabled
BlockedNotInDest(stack) ==
  /\ stack.ManagesStateFile /\ TerraformFamily(stack) /\ stack.ExternalStateAccessEnabled
  /\ stack.Name \notin DestNames
IsCandidate(stack) ==
  /\ stack.ManagesStateFile /\ TerraformFamily(stack) /\ stack.ExternalStateAccessEnabled
  /\ stack.Name \in DestNames
IsSkipped(stack) == SkipSelfManaged(stack) \/ SkipVendor(stack)

StackNames(stacks) == [i \in DOMAIN stacks |-> stacks[i].Name]

\* C8: classification is total with first-match precedence: the four lists
\* hold, in source order, exactly the stacks of their disposition (skipped
\* holds both skip dispositions, told apart by the reason), and their sizes
\* sum to the number of source stacks.
C8_ClassificationTotal ==
  (InMigrate /\ pc # "start") =>
    /\ [i \in DOMAIN candidates |-> candidates[i].Source] =
         SelectSeq(sourceStacks, IsCandidate)
    /\ notInDest = StackNames(SelectSeq(sourceStacks, BlockedNotInDest))
    /\ noAccess = StackNames(SelectSeq(sourceStacks, BlockedNoAccess))
    /\ LET sk == SelectSeq(sourceStacks, IsSkipped)
       IN  /\ Len(skipped) = Len(sk)
           /\ \A i \in DOMAIN sk :
                /\ skipped[i][1] = sk[i].Name
                /\ skipped[i][2] = "self-managed state" <=> SkipSelfManaged(sk[i])
    /\ Len(candidates) + Len(skipped) + Len(notInDest) + Len(noAccess)
         = Len(sourceStacks)

\* A stack that fails every test is skipped as self-managed (the first test
\* decides), next to a Terragrunt stack that is a candidate.
C8_Witness ==
  /\ InMigrate /\ pc = "done" /\ Len(sourceStacks) = 2
  /\ ~sourceStacks[1].ManagesStateFile
  /\ sourceStacks[1].VendorType = "StackConfigVendorAnsible"
  /\ ~sourceStacks[1].ExternalStateAccessEnabled
  /\ sourceStacks[1].Name \notin DestNames
  /\ skipped = <<(<<sourceStacks[1].Name, "self-managed state">>)>>
  /\ sourceStacks[2].VendorType = "StackConfigVendorTerragrunt"
  /\ Len(candidates) = 1

\* C9: every candidate is paired with a destination stack of the source
\* stack's name, the last one of that name in the destination discovery order.
C9_PairedWithLastOfName ==
  InMigrate =>
    \A i \in DOMAIN candidates :
      LET c == candidates[i]
          J == {j \in DOMAIN destStacks : destStacks[j].Name = c.Source.Name}
      IN  /\ c.Dest.Name = c.Source.Name
          /\ J # {}
          /\ c.Dest = destStacks[CHOOSE j \in J : \A k \in J : k <= j]

C9_Witness ==
  /\ InMigrate /\ Len(destStacks) = 2
  /\ destStacks[1].Name = destStacks[2].Name
  /\ Len(candidates) >= 1
  /\ candidates[1].Dest.ID = destStacks[2].ID

----------------------------------------------------------------------------
\* The space tree of the manifest, read off the parent pointers.

ManifestSpaceIDs == {manifest.Spaces[i].ID : i \in DOMAIN manifest.Spaces}

ParentOf(x) ==
  IF \E i \in DOMAIN manifest.Spaces : manifest.Spaces[i].ID = x
  THEN (CHOOSE sp \in {manifest.Spaces[i] : i \in DOMAIN manifest.Spaces} : sp.ID = x).ParentSpace
  ELSE Nil

RECURSIVE AncestorsWithin(_, _)
\* The spaces above x, at most k parent pointers away.
AncestorsWithin(x, k) ==
  IF k = 0 \/ ParentOf(x) = Nil THEN {}
  ELSE {ParentOf(x)} \cup AncestorsWithin(ParentOf(x), k - 1)

AncestorsOf(x) == AncestorsWithin(x, Len(manifest.Spaces))
DescendantsOf(x) == {y \in ManifestSpaceIDs : x \in AncestorsOf(y)}

InFilteredStacks(stack) == \E j \in DOMAIN filtered.Stacks : filtered.Stacks[j] = stack

\* C10: a stack is in the filtered manifest iff its space is the target, a
\* descendant of the target or an ancestor of the target; stacks of any other
\* space (a sibling of the target, say) are left out.
C10_StacksOfSubtreeAndAncestors ==
  fpc = "done" =>
    \A i \in DOMAIN manifest.Stacks :
      InFilteredStacks(manifest.Stacks[i]) <=>
        manifest.Stacks[i].Space \in
          {spaceID} \cup DescendantsOf(spaceID) \cup AncestorsOf(spaceID)

----------------------------------------------------------------------------
\* The filtered manifest, read as sets.

FilteredSpaceIDs == {filtered.Spaces[j].ID : j \in DOMAIN filtered.Spaces}

InSeq(seq, x) == \E j \in DOMAIN seq : seq[j] = x

\* The target, its descendants and its ancestors.
CoreSpaces == {spaceID} \cup DescendantsOf(spaceID) \cup AncestorsOf(spaceID)

\* A space and the spaces above it.
ChainOf(B) == {B} \cup AncestorsOf(B)

CrossReferencedSpaces ==
  {manifest.Contexts[c].Space :
     c \in {c \in DOMAIN manifest.Contexts :
              \E i \in DOMAIN manifest.Stacks :
                /\ manifest.Stacks[i].Space \in CoreSpaces
                /\ manifest.Contexts[c].ID \in AttachedContextIDs(manifest.Stacks[i])}}
    \cup
  {manifest.Policies[c].Space :
     c \in {c \in DOMAIN manifest.Policies :
              \E i \in DOMAIN manifest.Stacks :
                /\ manifest.Stacks[i].Space \in CoreSpaces
                /\ manifest.Policies[c].ID \in AttachedPolicyIDs(manifest.Stacks[i])}}

\* included of the claim: target, descendants, ancestors, and the chains of
\* the cross-referenced spaces; ancestors of the claim: the ancestor chain of
\* the target plus "root".
ClaimIncluded == CoreSpaces \cup UNION {ChainOf(B) : B \in CrossReferencedSpaces}
ClaimAncestors == AncestorsOf(spaceID) \cup {"root"}

\* C12: an AWS or Azure integration is in the filtered manifest iff its space
\* is in the included set or in the ancestor set; an integration of a sibling
\* of the target is not in it.
C12_IntegrationsOfIncludedOrAncestors ==
  fpc = "done" =>
    /\ \A i \in DOMAIN manifest.AWSIntegrations :
         InSeq(filtered.AWSIntegrations, manifest.AWSIntegrations[i]) <=>
           manifest.AWSIntegrations[i].Space \in ClaimIncluded \cup ClaimAncestors
    /\ \A i \in DOMAIN manifest.AzureIntegrations :
         InSeq(filtered.AzureIntegrations, manifest.AzureIntegrations[i]) <=>
           manifest.AzureIntegrations[i].Space \in ClaimIncluded \cup ClaimAncestors

\* Contexts and policies of the manifest attached to a stack that was kept,
\* owned by a space that is neither the target, a descendant nor an ancestor.
OutsideContexts ==
  {manifest.Contexts[c] :
     c \in {c \in DOMAIN manifest.Contexts :
              /\ manifest.Contexts[c].Space \notin CoreSpaces
              /\ \E j \in DOMAIN filtered.Stacks :
                   manifest.Contexts[c].ID \in AttachedContextIDs(filtered.Stacks[j])}}
OutsidePolicies ==
  {manifest.Policies[c] :
     c \in {c \in DOMAIN manifest.Policies :
              /\ manifest.Policies[c].Space \notin CoreSpaces
              /\ \E j \in DOMAIN filtered.Stacks :
                   manifest.Policies[c].ID \in AttachedPolicyIDs(filtered.Stacks[j])}}

C14_FilterIdempotent ==
  (fpc = "done" /\ pass = 2) =>
    /\ filtered.Spaces = manifest.Spaces
    /\ filtered.Stacks = manifest.Stacks
    /\ filtered.Contexts = manifest.Contexts
    /\ filtered.Policies = manifest.Policies
    /\ filtered.AWSIntegrations = manifest.AWSIntegrations
    /\ filtered.AzureIntegrations = manifest.AzureIntegrations

\* The second application has returned for a first result that holds an
\* ancestor of the target, a cross-referenced space and more than one stack.
C14_Witness ==
  /\ fpc = "done"
  /\ pass = 2
  /\ spaceID # "root"
  /\ Len(filtered.Stacks) >= 2
  /\ Len(filtered.Spaces) >= 3
  /\ requiredContextIDs \cup requiredPolicyIDs # {}
  /\ filtered = manifest

\* The spaces from which following parent pointers leads to root.
ReachableFromRoot(x) == x = "root" \/ "root" \in AncestorsOf(x)
StackReachable(r) == ReachableFromRoot(r.Space)
RootConnected == \A x \in ManifestSpaceIDs : ReachableFromRoot(x)

\* C15: when every space is connected to root, filtering by "root" returns the
\* stacks, contexts, policies and integrations of the manifest whose space is
\* reachable from root, in the order of the manifest.
C15_RootIsIdentity ==
  (fpc = "done" /\ pass = 1 /\ spaceID = "root" /\ RootConnected) =>
    /\ filtered.Stacks = SelectSeq(manifest.Stacks, StackReachable)
    /\ filtered.Contexts = SelectSeq(manifest.Contexts, StackReachable)
    /\ filtered.Policies = SelectSeq(manifest.Policies, StackReachable)
    /\ filtered.AWSIntegrations = SelectSeq(manifest.AWSIntegrations, StackReachable)
    /\ filtered.AzureIntegrations = SelectSeq(manifest.AzureIntegrations, StackReachable)
    /\ filtered.Stacks = manifest.Stacks

\* Filtering by root has returned for a tree in which a space listed before
\* its parent sits two levels below root.
C15_Witness ==
  /\ fpc = "done"
  /\ pass = 1
  /\ spaceID = "root"
  /\ RootConnected
  /\ \E i, j \in DOMAIN manifest.Spaces :
       /\ i < j
       /\ manifest.Spaces[i].ParentSpace = manifest.Spaces[j].ID
       /\ manifest.Spaces[j].ParentSpace = "root"
  /\ Len(filtered.Stacks) = Len(manifest.Stacks)

----------------------------------------------------------------------------
\* DiscoverAll, read off the account.

\* The answer of an integration lists an attachment to the stack that is not
\* flagged as a module attachment.
ListsStack(attachedStacks, stackID) ==
  \E a \in attachedStacks : a.StackID = stackID /\ ~a.IsModule

\* The attachments a stack ends with: one per integration that reports the
\* stack, in the order of the integrations.
RECURSIVE ExpectedAttached(_, _, _, _)
ExpectedAttached(stackID, integrations, attachedStacks, n) ==
  IF n = 0 THEN <<>>
  ELSE LET before == ExpectedAttached(stackID, integrations, attachedStacks, n - 1)
       IN  IF ListsStack(attachedStacks[n], stackID)
           THEN Append(before, [IntegrationID |-> integrations[n].ID])
           ELSE before

CompleteManifest ==
  [Spaces |-> accountData.Spaces,
   Stacks |->
     [i \in DOMAIN accountData.Stacks |->
        [ID |-> accountData.Stacks[i].ID,
         AttachedAWSIntegrations |->
           ExpectedAttached(accountData.Stacks[i].ID, accountData.AWSIntegrations,
                            accountData.AWSAttachedStacks,
                            Len(accountData.AWSIntegrations)),
         AttachedAzureIntegrations |->
           ExpectedAttached(accountData.Stacks[i].ID, accountData.AzureIntegrations,
                            accountData.AzureAttachedStacks,
                            Len(accountData.AzureIntegrations))]],
   Contexts |-> accountData.Contexts,
   Policies |-> accountData.Policies,
   AWSIntegrations |-> accountData.AWSIntegrations,
   AzureIntegrations |-> accountData.AzureIntegrations]

\* Every sub-fetch of a complete discovery, in order.
AllSubFetches ==
  <<"DiscoverSpaces", "DiscoverContexts", "DiscoverPolicies", "DiscoverStacks",
    "DiscoverAWSIntegrations", "DiscoverAzureIntegrations">>
    \o [i \in DOMAIN accountData.AWSIntegrations |-> "DiscoverAWSIntegrationAttachments"]
    \o [i \in DOMAIN accountData.AzureIntegrations |->
          "DiscoverAzureIntegrationAttachments"]

CallOps == [k \in DOMAIN calls |-> calls[k].op]

\* The sub-fetch an error names.
NamedSubFetch(err) ==
  CASE err[1] = "failed to discover spaces" -> "DiscoverSpaces"
    [] err[1] = "failed to discover contexts" -> "DiscoverContexts"
    [] err[1] = "failed to discover policies" -> "DiscoverPolicies"
    [] err[1] = "failed to discover stacks" -> "DiscoverStacks"
    [] err[1] = "failed to discover AWS integrations" -> "DiscoverAWSIntegrations"
    [] err[1] = "failed to discover Azure integrations" -> "DiscoverAzureIntegrations"
    [] err[1] = "failed to discover AWS integration attachments for" ->
         "DiscoverAWSIntegrationAttachments"
    [] err[1] = "failed to discover Azure integration attachments for" ->
         "DiscoverAzureIntegrationAttachments"
    [] OTHER -> "none"

\* C16: DiscoverAll is fail-fast. A failed query is the last query issued;
\* DiscoverAll returns either the complete manifest and a nil error after
\* every sub-fetch was issued and succeeded, or a nil manifest and an error
\* that names the one sub-fetch that failed.
C16_DiscoverAllFailFast ==
  /\ \A k \in DOMAIN calls : ~calls[k].ok => (k = Len(calls) /\ pc = "done")
  /\ pc = "done" =>
       \/ /\ returned.err = <<>>
          /\ returned.manifest = CompleteManifest
          /\ CallOps = AllSubFetches
          /\ \A k \in DOMAIN calls : calls[k].ok
       \/ /\ returned.err # <<>>
          /\ returned.manifest = NilManifest
          /\ calls # <<>>
          /\ ~calls[Len(calls)].ok
          /\ NamedSubFetch(returned.err) = calls[Len(calls)].op
          /\ CallOps = SubSeq(AllSubFetches, 1, Len(calls))
  /\ pc # "done" => returned = NotReturned

\* The attachments of an Azure integration fail to load after an attachment
\* of an AWS integration was put on a stack: nil and the error are returned.
C16_Witness ==
  /\ pc = "done"
  /\ returned.manifest = NilManifest
  /\ returned.err[1] = "failed to discover Azure integration attachments for"
  /\ \E i \in DOMAIN manifest.Stacks : manifest.Stacks[i].AttachedAWSIntegrations # <<>>
  /\ Len(calls) < Len(AllSubFetches)

----------------------------------------------------------------------------
\* The token against the snapshot of spaces.

SnapshotIDs == {spaces[i].ID : i \in DOMAIN spaces}

Resolving == cmd \in {"state plan", "state enable-access", "state migrate"}

\* The space stage is over and the spaces could be listed.
SpaceStageOver ==
  /\ pc \in {"filterBySpace", "done"}
  /\ spaceFilter # <<>>
  /\ \A k \in DOMAIN calls : calls[k].ok

TokenIsID == spaceFilter \in SnapshotIDs
TokenIsName == \E i \in DOMAIN spaces : spaces[i].Name = spaceFilter

\* The rest of the token after position k.
SuffixAfter(k) == SubSeq(spaceFilter, k + 1, Len(spaceFilter))
Hyphens == {k \in DOMAIN spaceFilter : spaceFilter[k] = "-"}

\* name-id: the token ends with a hyphen followed by a known id.
TokenIsNameID == \E k \in Hyphens : SuffixAfter(k) \in SnapshotIDs

ResolvedOK == pc = "filterBySpace"
ResolveError == pc = "done" /\ result = "error" /\ spaceID = <<>>

\* C17: resolveSpaceFilter tries exact id, exact name, name-id, in this order,
\* and the first rule that applies decides: a token that is an id resolves to
\* that id even if it is another space's name; a token that is a name and no
\* id resolves to a space of that name; otherwise a token that ends in
\* "-<id>" resolves to such an id; a token under no rule is an error with no
\* space id; every result is an id of the snapshot.
C17_FirstRuleWins ==
  (Resolving /\ SpaceStageOver) =>
    /\ TokenIsID => (ResolvedOK /\ spaceID = spaceFilter)
    /\ (~TokenIsID /\ TokenIsName) =>
         /\ ResolvedOK
         /\ \E i \in DOMAIN spaces : spaces[i].Name = spaceFilter /\ spaces[i].ID = spaceID
    /\ (~TokenIsID /\ ~TokenIsName /\ TokenIsNameID) =>
         /\ ResolvedOK
         /\ \E k \in Hyphens : SuffixAfter(k) = spaceID
    /\ (~TokenIsID /\ ~TokenIsName /\ ~TokenIsNameID) => ResolveError
    /\ ResolvedOK => spaceID \in SnapshotIDs

\* The token is the id of one space and the name of another, and has resolved
\* to the space whose id it is.
C17_Witness ==
  /\ Resolving
  /\ SpaceStageOver
  /\ ResolvedOK
  /\ \E i, j \in DOMAIN spaces :
       /\ i # j
       /\ spaces[i].ID = spaceFilter
       /\ spaces[j].Name = spaceFilter
       /\ j < i
  /\ spaceID = spaceFilter

\* C18: a token that is no id and no name resolves iff the substring after its
\* last hyphen is a known id; suffixes after an earlier hyphen are not tried.
C18_OnlyLastHyphen ==
  (Resolving /\ SpaceStageOver /\ ~TokenIsID /\ ~TokenIsName) =>
    (ResolvedOK <=>
       (Hyphens # {} /\
        SuffixAfter(CHOOSE k \in Hyphens : \A h \in Hyphens : h <= k) \in SnapshotIDs))

\* The id the three rules give the token.
RuleResult ==
  IF TokenIsID THEN spaceFilter
  ELSE IF TokenIsName
       THEN (CHOOSE sp \in {spaces[i] : i \in DOMAIN spaces} :
               /\ sp.Name = spaceFilter
               /\ \A i, j \in DOMAIN spaces :
                    (spaces[i] = sp /\ spaces[j].Name = spaceFilter) => i <= j).ID
       ELSE SuffixAfter(CHOOSE k \in Hyphens :
                          /\ SuffixAfter(k) \in SnapshotIDs
                          /\ \A h \in Hyphens : SuffixAfter(h) \in SnapshotIDs => h <= k)

\* C19: in every command that takes -s the filter is handed the id the three
\* rules give the token, and a token under no rule is an error.
C19_EveryCommandResolves ==
  SpaceStageOver =>
    IF TokenIsID \/ TokenIsName \/ TokenIsNameID
    THEN ResolvedOK /\ spaceID = RuleResult
    ELSE ResolveError

----------------------------------------------------------------------------
\* The triples a command requires.

Complete(c) == c.URL # "" /\ c.KeyID # "" /\ c.SecretKey # ""

RequiredTriples ==
  CASE cmd = "state migrate" -> {cfg.Source, cfg.Destination}
    [] cmd = "stacks enable" -> {cfg.Destination}
    [] OTHER -> {cfg.Source}

MissingRequired == \E c \in RequiredTriples : ~Complete(c)

ConfigError ==
  result \in {"source configuration error", "destination configuration error"}

\* C20: a command whose required triple lacks a field ends with a
\* configuration error and has created no client and sent no request: both
\* triples for state migrate, the destination triple for stacks enable, the
\* source triple for the commands that discover. A client exists or a request
\* was sent only when every required triple is complete.
C20_ConfigErrorBeforeNetwork ==
  /\ MissingRequired =>
       /\ clients = {}
       /\ calls = <<>>
       /\ pc \in {"ValidateSource", "ValidateDestination", "done"}
       /\ pc = "done" => ConfigError
  /\ (clients # {} \/ calls # <<>>) => ~MissingRequired

\* state migrate with a complete source triple and a destination triple that
\* lacks its secret key has ended with the configuration error.
C20_Witness ==
  /\ cmd = "state migrate"
  /\ Complete(cfg.Source)
  /\ cfg.Destination.URL # "" /\ cfg.Destination.SecretKey = ""
  /\ pc = "done"
  /\ result = "destination configuration error"
  /\ clients = {}
  /\ calls = <<>>

----------------------------------------------------------------------------
\* client.StreamStateFromURL and client.UploadStateToURL: what the status of
\* the response of the pre-signed URL decides.

\* The status codes a server answers with.
StatusCodes == 100..599

StatusOK == 200
StatusCreated == 201
StatusNoContent == 204

\* Mutant: every 2xx status is taken as success.
StreamStateFromURLResult_Any2xx(code) ==
  IF code < 200 \/ code > 299 THEN "error" ELSE "nil"

\* if resp.StatusCode != http.StatusOK { return nil, fmt.Errorf(...) }
StreamStateFromURLResult(code) ==
  IF code # StatusOK THEN "error" ELSE "nil"

\* if resp.StatusCode != http.StatusOK && resp.StatusCode != http.StatusCreated
\*    && resp.StatusCode != http.StatusNoContent { return fmt.Errorf(...) }
UploadStateToURLResult(code) ==
  IF code # StatusOK /\ code # StatusCreated /\ code # StatusNoContent
  THEN "error" ELSE "nil"

\* One state is streamed from its download URL into its upload URL.
InitTransfer ==
  /\ cmd = "state migrate"
  /\ pc = "StreamStateFromURL"
  /\ NothingRun
  /\ FilterIdle
  /\ SetupIdle

\* What the raw transfer leaves alone.
outsideTransfer ==
  <<cmd, dryRun, sourceStacks, destStacks, candidates, skipped, notInDest, noAccess,
    blocked, disabled, idx, successCount, failCount, locked, imported, accessEnabled,
    enabledStacks, filterVars, cfg, clients, spaceFilter, spaces, accountData, returned,
    transport, now>>

\* http.Get(url): the request fails, or the server answers with some status.
\* The reader is handed on only when the function returns no error.
StreamFromURL ==
  /\ pc = "StreamStateFromURL"
  /\ \/ /\ status' = 0
        /\ result' = "error"
        /\ calls' = Append(calls, Call("StreamStateFromURL", "source", Nil, FALSE))
        /\ pc' = "done"
     \/ \E code \in StatusCodes :
          /\ status' = code
          /\ result' = StreamStateFromURLResult(code)
          /\ calls' = Append(calls, Call("StreamStateFromURL", "source", Nil,
                                         StreamStateFromURLResult(code) = "nil"))
          /\ pc' = IF StreamStateFromURLResult(code) = "nil"
                   THEN "UploadStateToURL" ELSE "done"
  /\ UNCHANGED outsideTransfer

\* http.DefaultClient.Do(req) of the PUT: the request fails, or the server
\* answers with some status.
UploadToURL ==
  /\ pc = "UploadStateToURL"
  /\ \/ /\ status' = 0
        /\ result' = "error"
        /\ calls' = Append(calls, Call("UploadStateToURL", "destination", Nil, FALSE))
     \/ \E code \in StatusCodes :
          /\ status' = code
          /\ result' = UploadStateToURLResult(code)
          /\ calls' = Append(calls, Call("UploadStateToURL", "destination", Nil,
                                         UploadStateToURLResult(code) = "nil"))
  /\ pc' = "done"
  /\ UNCHANGED outsideTransfer

NextTransfer ==
  \/ StreamFromURL
  \/ UploadToURL

SpecTransfer == InitTransfer /\ [][NextTransfer]_vars

\* The raw transfer call that returned last, and whether it returned no error.
LastTransfer == calls[Len(calls)]

Answered == calls # <<>> /\ status # 0

\* C21 as stated: a raw transfer call that got a response returns no error iff
\* the status of the response is in 200..299.
C21_Every2xxIsSuccess ==
  Answered => (LastTransfer.ok <=> status \in 200..299)

\* C21: StreamStateFromURL returns no error iff the status is 200, and
\* UploadStateToURL returns no error iff the status is 200, 201 or 204; every
\* other status, 2xx or not, is an error.
C21_OnlyListedStatusesSucceed ==
  Answered =>
    /\ LastTransfer.op = "StreamStateFromURL" =>
         /\ LastTransfer.ok <=> status = 200
         /\ result = (IF status = 200 THEN "nil" ELSE "error")
    /\ LastTransfer.op = "UploadStateToURL" =>
         /\ LastTransfer.ok <=> status \in {200, 201, 204}
         /\ result = (IF status \in {200, 201, 204} THEN "nil" ELSE "error")

\* The download was answered with 200 and the upload with 202 Accepted, which
\* UploadStateToURL returned as an error.
C21_Witness ==
  /\ Len(calls) = 2
  /\ calls[1].op = "StreamStateFromURL" /\ calls[1].ok
  /\ calls[2].op = "UploadStateToURL" /\ ~calls[2].ok
  /\ status = 202
  /\ result = "error"

----------------------------------------------------------------------------
\* client.Client: the spaceliftTransport and its cached token.

MaxRequests == 2   \* calls made through the Client
MaxMinutes == 57   \* how long the Client is watched, in minutes

\* t.tokenExp = time.Now().Add(55 * time.Minute)
TokenLifetime == 55

\* The Client of the source account right after client.New: nothing was sent.
InitClient ==
  /\ cmd = "state migrate"
  /\ pc = "client"
  /\ NothingRun
  /\ FilterIdle
  /\ SetupIdle

\* What a call through the Client leaves alone.
outsideClient ==
  <<cmd, dryRun, sourceStacks, destStacks, pc, candidates, skipped, notInDest, noAccess,
    blocked, disabled, idx, successCount, failCount, result, locked, imported,
    accessEnabled, enabledStacks, filterVars, cfg, clients, spaceFilter, spaces,
    accountData, returned, status, now>>

\* Requests the Client has been asked to send, answered or not.
Requests ==
  Cardinality({i \in DOMAIN calls : calls[i].op # "apiKeyUser"})
    + Cardinality({i \in DOMAIN calls :
                     /\ calls[i].op = "apiKeyUser"
                     /\ ~calls[i].ok})

\* spaceliftTransport.RoundTrip on the transport t for the request op. If t has
\* no token or its token is past tokenExp, refreshToken exchanges the
\* credentials first: when that fails the request is not sent, when it
\* succeeds t keeps the new token for 55 minutes. `shared' tells whether t is
\* the transport of the Client, which outlives the call.
RoundTrip(t, op, shared) ==
  /\ pc = "client"
  /\ Requests < MaxRequests
  /\ IF t.token = "" \/ now > t.tokenExp
     THEN \E exchanged \in BOOLEAN :
            IF exchanged
            THEN /\ \E ok \in BOOLEAN :
                      calls' = calls \o <<Call("apiKeyUser", "source", Nil, TRUE),
                                          Call(op, "source", Nil, ok)>>
                 /\ transport' =
                      IF shared
                      THEN [token |-> "jwt", tokenExp |-> now + TokenLifetime]
                      ELSE transport
            ELSE /\ calls' = Append(calls, Call("apiKeyUser", "source", Nil, FALSE))
                 /\ UNCHANGED transport
     ELSE /\ \E ok \in BOOLEAN : calls' = Append(calls, Call(op, "source", Nil, ok))
          /\ UNCHANGED transport
  /\ UNCHANGED outsideClient

\* c.graphql.Query: through the http.Client New built around the transport.
Query == RoundTrip(transport, "Query", TRUE)

\* c.graphql.Mutate: through the same http.Client.
Mutate == RoundTrip(transport, "Mutate", TRUE)

\* c.rawMutate (LockStack, UnlockStack, ImportManagedState, EnableStack, ...):
\* the request goes through an http.Client built for this call around a new
\* spaceliftTransport, which starts without a token.
RawMutate == RoundTrip(NewTransport, "rawMutate", FALSE)

\* Time passes between two calls.
Tick ==
  /\ pc = "client"
  /\ \E d \in {1, TokenLifetime} :
       /\ now + d <= MaxMinutes
       /\ now' = now + d
  /\ UNCHANGED <<cmdVars, filterVars, cfg, clients, spaceFilter, spaces, accountData,
                 returned, status, transport>>

NextClient ==
  \/ Query
  \/ Mutate
  \/ RawMutate
  \/ Tick

SpecClient == InitClient /\ [][NextClient]_vars

\* The step performs a credential exchange.
ExchangeInStep ==
  \E i \in (Len(calls) + 1)..Len(calls') : calls'[i].op = "apiKeyUser"

\* The token the Client caches is absent or past its expiry.
TokenStale == transport.token = "" \/ now > transport.tokenExp

\* C22: a call made through the Client performs a credential exchange only
\* when the token cached by the Client is absent or past its expiry; while
\* the token is valid no call exchanges the credentials again.
C22_ExchangeOnlyWhenTokenStale ==
  [][ExchangeInStep => TokenStale]_vars

----------------------------------------------------------------------------
\* state migrate as a run that is not left waiting: every remote call
\* returns, so the command takes its next step as long as it has one.

MaxLive == 2       \* source stacks of a run checked for termination

\* Both names exist in the destination; every source stack has managed
\* Terraform-family state, with or without external access.
InitLive ==
  /\ cmd = "state migrate"
  /\ dryRun = FALSE
  /\ sourceStacks \in
       {MkStacks("source", sh) :
          sh \in SeqsUpTo(Shape(Names, {TRUE}, {"StackConfigVendorOpenTofu"}, BOOLEAN,
                                {FALSE}), MaxLive)}
  /\ destStacks =
       MkStacks("destination",
                <<[Name |-> "a", ManagesStateFile |-> TRUE,
                   VendorType |-> "StackConfigVendorOpenTofu",
                   ExternalStateAccessEnabled |-> FALSE, IsDisabled |-> TRUE],
                  [Name |-> "b", ManagesStateFile |-> TRUE,
                   VendorType |-> "StackConfigVendorOpenTofu",
                   ExternalStateAccessEnabled |-> FALSE, IsDisabled |-> TRUE]>>)
  /\ pc = "start"
  /\ candidates = <<>>
  /\ skipped = <<>>
  /\ notInDest = <<>>
  /\ noAccess = <<>>
  /\ blocked = <<>>
  /\ disabled = <<>>
  /\ idx = 0
  /\ successCount = 0
  /\ failCount = 0
  /\ result = "running"
  /\ calls = <<>>
  /\ locked = {}
  /\ imported = {}
  /\ accessEnabled = {}
  /\ enabledStacks = {}
  /\ FilterIdle
  /\ SetupIdle

NextMigrate ==
  \/ MigratePlan
  \/ GetStateDownloadURL
  \/ GetStateUploadURL
  \/ StreamStateFromURL
  \/ UploadStateToURL
  \/ LockStack
  \/ ImportManagedState
  \/ UnlockStackAfterFailedImport
  \/ UnlockStack
  \/ MigrateSummary

\* Weak fairness of the whole step relation: the command is one sequential
\* goroutine, and a call that returns lets it go on.
SpecLive == InitLive /\ [][NextMigrate]_vars /\ WF_vars(NextMigrate)

\* Candidate i ended Succeeded: its import succeeded and its unlock was tried.
EndedSucceeded(i) == Succeeded(i, "ImportManagedState") /\ Issued(i, "UnlockStack")

\* Candidate i ended Failed: one of its steps before the final unlock failed.
EndedFailed(i) == i \in FailedCands

AllCallsSucceeded == \A k \in DOMAIN calls : calls[k].ok

\* The run is over and every candidate has its outcome; when no call failed,
\* every candidate went through the seven steps and the command returned nil.
PipelineOver ==
  /\ pc = "done"
  /\ result \in {"nil", "error"}
  /\ \A i \in 1..Len(candidates) : EndedSucceeded(i) # EndedFailed(i)
  /\ successCount = Cardinality({i \in 1..Len(candidates) : EndedSucceeded(i)})
  /\ failCount = Cardinality({i \in 1..Len(candidates) : EndedFailed(i)})
  /\ AllCallsSucceeded =>
       /\ \A i \in 1..Len(candidates) :
            \A s \in DOMAIN MigrateOps : Succeeded(i, MigrateOps[s])
       /\ successCount = Len(candidates)
       /\ failCount = 0
       /\ result = "nil"

\* C23: when every remote call returns, the run terminates with every
\* candidate Succeeded or Failed; if moreover every call succeeded, every
\* candidate passed through all steps and ended Succeeded, failed is 0 and
\* the command returns no error.
C23_PipelineTerminates == <>PipelineOver

\* A run of two candidates is over with every call successful.
C23_Witness ==
  /\ pc = "done"
  /\ Len(candidates) = 2
  /\ Len(calls) = 14
  /\ AllCallsSucceeded
  /\ successCount = 2
  /\ result = "nil"

----------------------------------------------------------------------------
\* -s/--space in state plan, state enable-access, state migrate and stacks
\* enable: the discovered stacks are cut down to one space.

SelectCommands == {"state plan", "state enable-access", "state migrate", "stacks enable"}

\* Two stacks for every space, in discovery order.
TwoStacksEach ==
  [i \in 1..(2 * Len(SpaceOrder)) |->
     [ID |-> <<"stack", SpaceOrder[(i + 1) \div 2], i>>,
      Space |-> SpaceOrder[(i + 1) \div 2]]]

\* What DiscoverStacks returns: the spaces in S own stacks, two each when twin.
Discovered(S, twin) ==
  SelectSeq(TwoStacksEach, LAMBDA s : s.Space \in S /\ (twin \/ s.ID[3] % 2 = 1))

\* The account (its spaces and its stacks) and the space id the command
\* filters on; "" when -s was not given.
InitSelect ==
  /\ cmd \in SelectCommands
  /\ pc = "filterBySpace"
  /\ NothingRun
  /\ \E par \in ParentPointers, S \in SUBSET AllSpaceIDs, twin \in BOOLEAN :
       manifest = [EmptyManifest EXCEPT !.Spaces = MkManifest(par, [kind |-> "none"]).Spaces,
                                        !.Stacks = Discovered(S, twin)]
  /\ spaceID \in AllSpaceIDs \cup {""}
  /\ fpc = "idle"
  /\ includedSpaces = {}
  /\ ancestorSpaces = {}
  /\ currentSpaceID = ""
  /\ filteredStacks = <<>>
  /\ requiredContextIDs = {}
  /\ requiredPolicyIDs = {}
  /\ pending = {}
  /\ filtered = EmptyManifest
  /\ pass = 0
  /\ SetupIdle

\* Mutant: the stacks of the child spaces are kept too.
InSpace_WithChildren(stack, id) ==
  stack.Space = id \/ spaceMap[stack.Space].ParentSpace = id

\* stack.Space == spaceID
InSpace(stack, id) == stack.Space = id

\* var filtered []models.Stack
\* for _, stack := range stacks { if stack.Space == spaceID { append } }
\* stacks = filtered
FilterBySpace(stacks, id) ==
  IF id # "" THEN SelectSeq(stacks, LAMBDA stack : InSpace(stack, id)) ELSE stacks

outsideSelect ==
  <<cmd, dryRun, candidates, skipped, notInDest, noAccess, blocked, disabled, idx,
    successCount, failCount, result, calls, locked, imported, accessEnabled,
    enabledStacks, filterVars, setupVars>>

\* runStatePlan: the stacks of the source account.
StatePlanSelect ==
  /\ cmd = "state plan"
  /\ pc = "filterBySpace"
  /\ sourceStacks' = FilterBySpace(manifest.Stacks, spaceID)
  /\ pc' = "start"
  /\ UNCHANGED <<destStacks, outsideSelect>>

\* runStateEnableAccess: the stacks of the source account.
EnableAccessSelect ==
  /\ cmd = "state enable-access"
  /\ pc = "filterBySpace"
  /\ sourceStacks' = FilterBySpace(manifest.Stacks, spaceID)
  /\ pc' = "start"
  /\ UNCHANGED <<destStacks, outsideSelect>>

\* runStateMigrate: the stacks of the source account; the destination stacks
\* are not filtered.
MigrateSelect ==
  /\ cmd = "state migrate"
  /\ pc = "filterBySpace"
  /\ sourceStacks' = FilterBySpace(manifest.Stacks, spaceID)
  /\ pc' = "start"
  /\ UNCHANGED <<destStacks, outsideSelect>>

\* runStacksEnable: the stacks of the destination account.
StacksEnableSelect ==
  /\ cmd = "stacks enable"
  /\ pc = "filterBySpace"
  /\ destStacks' = FilterBySpace(manifest.Stacks, spaceID)
  /\ pc' = "start"
  /\ UNCHANGED <<sourceStacks, outsideSelect>>

NextSelect ==
  \/ StatePlanSelect
  \/ EnableAccessSelect
  \/ MigrateSelect
  \/ StacksEnableSelect

SpecSelect == InitSelect /\ [][NextSelect]_vars

\* The stacks the command goes on with.
Selected == IF cmd = "stacks enable" THEN destStacks ELSE sourceStacks

SelectedSet == {Selected[i] : i \in DOMAIN Selected}

DiscoveredSet == {manifest.Stacks[i] : i \in DOMAIN manifest.Stacks}

\* C24: with -s the four commands go on with exactly the discovered stacks
\* whose owning space is the given space, each once and in discovery order;
\* no stack of a child space, or of any deeper descendant, is selected.
C24_SelectsOwnSpaceOnly ==
  (pc = "start" /\ spaceID # "") =>
    /\ SelectedSet = {s \in DiscoveredSet : s.Space = spaceID}
    /\ Len(Selected) = Cardinality(SelectedSet)
    /\ \A i, j \in DOMAIN Selected :
         i < j => Selected[i].ID[3] < Selected[j].ID[3]
    /\ \A s \in SelectedSet : s.Space \notin DescendantsOf(spaceID)

\* The given space owns stacks and so does a child space of it; the child's
\* stacks were left out.
C24_Witness ==
  /\ pc = "start"
  /\ cmd = "state migrate"
  /\ spaceID # ""
  /\ Len(Selected) = 2
  /\ \E s \in DiscoveredSet : ParentOf(s.Space) = spaceID

----------------------------------------------------------------------------
\* The step issues the UnlockStack call of the current candidate.
UnlockIssued ==
  /\ Len(calls') = Len(calls) + 1
  /\ calls'[Len(calls')].op = "UnlockStack"
  /\ calls'[Len(calls')].cand = idx

\* C25: the step that issues UnlockStack counts the candidate by its import
\* alone: succeeded when the import succeeded, failed when the import failed,
\* whatever the unlock call returns.
C25_UnlockResultNotCounted ==
  [][UnlockIssued =>
       IF Succeeded(idx, "ImportManagedState")
       THEN successCount' = successCount + 1 /\ failCount' = failCount
       ELSE successCount' = successCount /\ failCount' = failCount + 1]_vars

\* The import of the first candidate failed and its unlock succeeded: counted
\* failed. The import of the second succeeded and its unlock failed: counted
\* succeeded.
C25_Witness ==
  /\ InMigrate /\ pc = "done" /\ Len(candidates) = 2
  /\ Failed(1, "ImportManagedState") /\ Succeeded(1, "UnlockStack")
  /\ Succeeded(2, "ImportManagedState") /\ Failed(2, "UnlockStack")
  /\ failCount = 1 /\ successCount = 1
  /\ result = "error"

----------------------------------------------------------------------------
\* Positions of the ImportManagedState calls in the log.
ImportCalls == {k \in DOMAIN calls : calls[k].op = "ImportManagedState"}

\* C27: ImportManagedState is issued on a destination stack only under the
\* lock of its candidate: the stack is locked when the import is about to be
\* issued, and every import in the log comes after a successful LockStack of
\* the same candidate on the same stack and before any UnlockStack of that
\* candidate.
C27_ImportOnlyUnderLock ==
  InMigrate =>
    /\ pc = "ImportManagedState" => candidates[idx].Dest.ID \in locked
    /\ \A k \in ImportCalls :
         /\ \E j \in 1..(k - 1) :
              /\ calls[j].op = "LockStack" /\ calls[j].ok
              /\ calls[j].cand = calls[k].cand
              /\ calls[j].stack = calls[k].stack
         /\ \A j \in 1..(k - 1) :
              ~(calls[j].op = "UnlockStack" /\ calls[j].cand = calls[k].cand)

\* The lock of a candidate failed and no import was issued for it; the next
\* candidate was locked and its import is in the log.
C27_Witness ==
  /\ InMigrate /\ pc = "done" /\ Len(candidates) = 2
  /\ Failed(1, "LockStack") /\ ~Issued(1, "ImportManagedState")
  /\ Succeeded(2, "LockStack") /\ Issued(2, "ImportManagedState")
  /\ Issued(2, "UnlockStack")

----------------------------------------------------------------------------
\* C29: in one run of state migrate no destination stack is the target of the
\* import of more than one candidate.
C29_OneImportPerDestStack ==
  InMigrate =>
    \A k, j \in ImportCalls : calls[k].stack = calls[j].stack => calls[k].cand = calls[j].cand

----------------------------------------------------------------------------
\* The stack of the returned manifest has an entry for the integration.
HasEntry(list, integrationID) ==
  \E j \in DOMAIN list : list[j].IntegrationID = integrationID

DiscoverAllSucceeded == pc = "done" /\ returned.err = <<>>

\* C26: after a successful DiscoverAll a stack has an entry for an integration
\* iff the answer of that integration lists an attachment to the id of the
\* stack that is no module attachment; the stacks of the manifest are the
\* discovered ones, so an attachment to an id no stack has leaves no trace,
\* and it is no error.
C26_AttachedIffListedAndNoModule ==
  DiscoverAllSucceeded =>
    /\ Len(returned.manifest.Stacks) = Len(accountData.Stacks)
    /\ \A i \in DOMAIN returned.manifest.Stacks :
         LET stack == returned.manifest.Stacks[i]
         IN  /\ stack.ID = accountData.Stacks[i].ID
             /\ \A n \in DOMAIN accountData.AWSIntegrations :
                  HasEntry(stack.AttachedAWSIntegrations, accountData.AWSIntegrations[n].ID)
                    <=> ListsStack(accountData.AWSAttachedStacks[n], stack.ID)
             /\ \A n \in DOMAIN accountData.AzureIntegrations :
                  HasEntry(stack.AttachedAzureIntegrations,
                           accountData.AzureIntegrations[n].ID)
                    <=> ListsStack(accountData.AzureAttachedStacks[n], stack.ID)
             /\ \A j \in DOMAIN stack.AttachedAWSIntegrations :
                  \E n \in DOMAIN accountData.AWSIntegrations :
                    stack.AttachedAWSIntegrations[j].IntegrationID =
                      accountData.AWSIntegrations[n].ID
             /\ \A j \in DOMAIN stack.AttachedAzureIntegrations :
                  \E n \in DOMAIN accountData.AzureIntegrations :
                    stack.AttachedAzureIntegrations[j].IntegrationID =
                      accountData.AzureIntegrations[n].ID

\* DiscoverAll succeeded on an account whose first AWS integration is attached
\* to s1 as a module and to s2 as a stack, and whose first Azure integration
\* is attached to s1 and to a stack that is not discovered.
C26_Witness ==
  /\ DiscoverAllSucceeded
  /\ Len(accountData.AWSIntegrations) >= 1
  /\ accountData.AWSAttachedStacks[1] =
       {AttachedStack("s1", TRUE), AttachedStack("s2", FALSE)}
  /\ Len(accountData.AzureIntegrations) >= 1
  /\ accountData.AzureAttachedStacks[1] =
       {AttachedStack("s1", FALSE), AttachedStack("gone", FALSE)}
  /\ returned.manifest.Stacks[1].AttachedAWSIntegrations = <<>>
  /\ Len(returned.manifest.Stacks[2].AttachedAWSIntegrations) >= 1
  /\ Len(returned.manifest.Stacks[1].AttachedAzureIntegrations) >= 1

----------------------------------------------------------------------------
\* The spaces the tree alone gives for the target: the target, its ancestors
\* below root, and every descendant of one of these.
UpFromTarget == ({spaceID} \cup AncestorsOf(spaceID)) \ ({"root"} \ {spaceID})
TreeSpaces == UpFromTarget \cup UNION {DescendantsOf(x) : x \in UpFromTarget}

InTreeSpaces(r) == r.Space \in TreeSpaces

\* Spaces that are in the output for a cross-reference only.
CrossReferenceOnly == FilteredSpaceIDs \ TreeSpaces

\* C30: the Stacks of the filtered manifest are the stacks of the spaces the
\* tree gives for the target, whatever is attached to them; a space that is
\* in the output only for a cross-referenced context or policy has none of
\* its stacks in the output and all of its contexts and policies.
C30_StacksFromTreeOnly ==
  (fpc = "done" /\ pass = 1) =>
    /\ filtered.Stacks = SelectSeq(manifest.Stacks, InTreeSpaces)
    /\ \A B \in CrossReferenceOnly :
         /\ \A i \in DOMAIN manifest.Stacks :
              manifest.Stacks[i].Space = B => ~InSeq(filtered.Stacks, manifest.Stacks[i])
         /\ \A i \in DOMAIN manifest.Contexts :
              manifest.Contexts[i].Space = B => InSeq(filtered.Contexts, manifest.Contexts[i])
         /\ \A i \in DOMAIN manifest.Policies :
              manifest.Policies[i].Space = B => InSeq(filtered.Policies, manifest.Policies[i])

\* A space with a parent other than root is in the output for a
\* cross-reference only, and so is that parent: both own a stack, neither
\* stack is in the output.
C30_Witness ==
  /\ fpc = "done" /\ pass = 1
  /\ \E B \in CrossReferenceOnly :
       /\ ParentOf(B) \in CrossReferenceOnly
       /\ \E i \in DOMAIN manifest.Stacks : manifest.Stacks[i].Space = B
       /\ \E i \in DOMAIN manifest.Stacks : manifest.Stacks[i].Space = ParentOf(B)
       /\ \A j \in DOMAIN filtered.Stacks : filtered.Stacks[j].Space \notin {B, ParentOf(B)}

----------------------------------------------------------------------------
\* filterManifestBySpace on a manifest whose parentSpace pointers do not all
\* lead to root or to a space without parent: a chain of parents comes back
\* to where it started. (A space that is its own parent is the cycle of
\* length one; there the loop goes round without changing anything, so the
\* cycles taken here have two spaces or more.)

CyclicParentPointers ==
  {par \in [NonRoot -> AllSpaceIDs \cup {Nil}] \ ParentPointers :
     \A x \in NonRoot : par[x] # x}

InitCyclic ==
  /\ cmd = "generate"
  /\ pc = "filter"
  /\ NothingRun
  /\ manifest \in {MkManifest(par, att) : par \in CyclicParentPointers, att \in Attachments}
  /\ spaceID \in AllSpaceIDs
  /\ fpc = "start"
  /\ includedSpaces = {}
  /\ ancestorSpaces = {}
  /\ currentSpaceID = ""
  /\ filteredStacks = <<>>
  /\ requiredContextIDs = {}
  /\ requiredPolicyIDs = {}
  /\ pending = {}
  /\ filtered = EmptyManifest
  /\ pass = 1
  /\ SetupIdle

\* The filter is one sequential function: as long as it has a next step it
\* takes it.
SpecCyclic == InitCyclic /\ [][NextFilter]_vars /\ WF_vars(NextFilter)

\* C28: filterManifestBySpace terminates: every run of the filter reaches its
\* return, also on a manifest whose parent pointers hold a cycle or a space
\* that is its own parent.
C28_FilterTerminates == <>(fpc = "done")

====
